---- MODULE Spec2Model ----
(***************************************************************************)
(* Model of the report viewer of src/src/components/ReportPage.tsx: the    *)
(* Normalizer (clampScore, normalizeString, asRiskArray, mapToReport) and  *)
(* the upload handler handleFileChange with its FileReader callbacks.      *)
(*                                                                         *)
(* A JavaScript string is a sequence of characters, each character a       *)
(* one-character TLA+ string; a character outside ASCII is written by its  *)
(* code point ("U+2014" is the em dash).  A JavaScript value is a record   *)
(* tagged by its typeof-like field t.                                      *)
(***************************************************************************)
EXTENDS Integers, Sequences, FiniteSets, TLC

VARIABLES report, isPlaceholder, error, fileName, inputValue, pending,
          nextRead, last, fn, arg, result, insights, activeFilter

vars == <<report, isPlaceholder, error, fileName, inputValue, pending,
          nextRead, last, fn, arg, result, insights, activeFilter>>

-----------------------------------------------------------------------------
(* JavaScript values                                                        *)

Undefined == [t |-> "undefined"]

Null == [t |-> "null"]

Bool(b) == [t |-> "boolean", b |-> b]

\* A finite number x is kept as floor(x) and the class of x - floor(x):
\* "zero" (x is an integer), "below" (0 < frac < 1/2), "half" (frac = 1/2),
\* "above" (1/2 < frac < 1).  42.5 is Num(42, "half"), -0.5 is Num(-1, "half").
Fractions == {"zero", "below", "half", "above"}

Num(i, fr) == [t |-> "number", k |-> "finite", floor |-> i, frac |-> fr]

NaN == [t |-> "number", k |-> "NaN"]

PosInfinity == [t |-> "number", k |-> "Infinity"]

NegInfinity == [t |-> "number", k |-> "-Infinity"]

Str(s) == [t |-> "string", s |-> s]

Arr(items) == [t |-> "array", items |-> items]

\* An object: a function from its own property names (strings) to values.
Obj(f) == [t |-> "object", f |-> f]

EmptyObj == Obj([k \in {} |-> Undefined])

\* Object with the properties ks (a sequence of names) bound to vs; a
\* repeated name keeps its last value, as in JSON.parse and object literals.
ObjOf(ks, vs) ==
    Obj([k \in {ks[i] : i \in 1..Len(ks)} |->
            vs[CHOOSE i \in 1..Len(ks) :
                  /\ ks[i] = k
                  /\ \A j \in 1..Len(ks) : ks[j] = k => j <= i]])

\* raw.k: reading a property of null or undefined is a TypeError (callers
\* test Nullish first); a property the value does not have reads undefined.
Get(v, k) ==
    IF v.t = "object" /\ k \in DOMAIN v.f THEN v.f[k] ELSE Undefined

Nullish(v) == v.t \in {"null", "undefined"}

\* A plausible slip: a || b, which passes over every falsy value.
Coalesce_Falsy(a, b) ==
    IF \/ Nullish(a)
       \/ a = Bool(FALSE)
       \/ a = Str(<< >>)
       \/ a = NaN
       \/ a = Num(0, "zero")
    THEN b ELSE a

\* a ?? b
Coalesce(a, b) == IF Nullish(a) THEN b ELSE a

-----------------------------------------------------------------------------
(* Strings                                                                  *)

\* The white space and line terminators String.prototype.trim removes
\* (those that occur in the inputs of this model).
WhiteSpace == {" ", "\t", "\n", "\r"}

RECURSIVE TrimStart(_)
TrimStart(s) ==
    IF s # << >> /\ Head(s) \in WhiteSpace THEN TrimStart(Tail(s)) ELSE s

RECURSIVE TrimEnd(_)
TrimEnd(s) ==
    IF s # << >> /\ s[Len(s)] \in WhiteSpace
    THEN TrimEnd(SubSeq(s, 1, Len(s) - 1))
    ELSE s

\* String.prototype.trim
Trim(s) == TrimEnd(TrimStart(s))

\* Property names read by the Normalizer.
K_structuralViabilityScore == <<"s", "t", "r", "u", "c", "t", "u", "r", "a", "l", "V", "i", "a", "b", "i", "l", "i",
                                "t", "y", "S", "c", "o", "r", "e">>

K_viabilityScore == <<"v", "i", "a", "b", "i", "l", "i", "t", "y", "S", "c", "o", "r", "e">>

K_stage == <<"s", "t", "a", "g", "e">>

K_summary == <<"s", "u", "m", "m", "a", "r", "y">>

K_recommendedNextStep == <<"r", "e", "c", "o", "m", "m", "e", "n", "d", "e", "d", "N", "e", "x", "t", "S", "t",
                           "e", "p">>

K_nextStep == <<"n", "e", "x", "t", "S", "t", "e", "p">>

K_risks == <<"r", "i", "s", "k", "s">>

K_type == <<"t", "y", "p", "e">>

K_file == <<"f", "i", "l", "e">>

K_filePath == <<"f", "i", "l", "e", "P", "a", "t", "h">>

K_why == <<"w", "h", "y">>

K_whyItMatters == <<"w", "h", "y", "I", "t", "M", "a", "t", "t", "e", "r", "s">>

K_explanation == <<"e", "x", "p", "l", "a", "n", "a", "t", "i", "o", "n">>

\* 'Not provided'
NotProvided == <<"N", "o", "t", " ", "p", "r", "o", "v", "i", "d", "e", "d">>

-----------------------------------------------------------------------------
(* The placeholder Report                                                   *)

placeholderSummary ==
    <<"Y", "o", "u", "r", " ", "a", "p", "p", " ", "w", "o", "r", "k", "s", " ", "t", "o",
    "d", "a", "y", " ", "U+2014", " ", "b", "u", "t", " ", "i", "t", " ", "w", "o", "n",
    "'", "t", " ", "l", "e", "t", " ", "y", "o", "u", " ", "g", "r", "o", "w", " ", "s",
    "a", "f", "e", "l", "y", ".", "\n", "\n", "T", "h", "i", "s", " ", "i", "s", " ", "t",
    "h", "e", " ", "m", "o", "m", "e", "n", "t", " ", "w", "h", "e", "r", "e", " ", "p",
    "r", "o", "t", "o", "t", "y", "p", "e", "s", " ", "e", "i", "t", "h", "e", "r", " ",
    "e", "v", "o", "l", "v", "e", ".", ".", ".", " ", "o", "r", " ", "b", "r", "e", "a",
    "k", ".", "\n", "\n", "Y", "o", "u", "r", " ", "a", "p", "p", " ", "w", "o", "r", "k",
    "s", " ", "n", "o", "w", ",", " ", "b", "u", "t", " ", "i", "t", " ", "i", "s", "n",
    "'", "t", " ", "b", "u", "i", "l", "t", " ", "t", "o", " ", "s", "u", "r", "v", "i",
    "v", "e", " ", "r", "e", "a", "l", " ", "f", "e", "a", "t", "u", "r", "e", "s", ",",
    " ", "u", "s", "e", "r", "s", ",", " ", "o", "r", " ", "g", "r", "o", "w", "t", "h",
    ".", "\n", "\n", "I", "t", " ", "l", "o", "o", "k", "s", " ", "l", "i", "k", "e", " ",
    "a", " ", "p", "r", "o", "d", "u", "c", "t", " ", "U+2014", " ", "b", "u", "t", " ",
    "i", "t", "'", "s", " ", "s", "t", "i", "l", "l", " ", "s", "t", "r", "u", "c", "t",
    "u", "r", "e", "d", " ", "l", "i", "k", "e", " ", "a", " ", "p", "r", "o", "t", "o",
    "t", "y", "p", "e", ".", "\n", "\n", "T", "h", "e", " ", "m", "o", "r", "e", " ", "y",
    "o", "u", " ", "b", "u", "i", "l", "d", " ", "o", "n", " ", "t", "o", "p", " ", "o",
    "f", " ", "t", "h", "i", "s", " ", "s", "t", "r", "u", "c", "t", "u", "r", "e", " ",
    "(", "a", "u", "t", "h", ",", " ", "t", "e", "a", "m", "s", ",", " ", "p", "a", "y",
    "m", "e", "n", "t", "s", ",", " ", "w", "o", "r", "k", "f", "l", "o", "w", "s", ")",
    ",", "\n", "t", "h", "e", " ", "m", "o", "r", "e", " ", "i", "t", " ", "b", "e", "g",
    "i", "n", "s", " ", "t", "o", " ", "r", "e", "s", "i", "s", "t", " ", "c", "h", "a",
    "n", "g", "e", ".", "\n", "\n", "Y", "o", "u", "'", "r", "e", " ", "n", "o", "t", " ",
    "i", "n", " ", "t", "r", "o", "u", "b", "l", "e", ".", " ", "Y", "o", "u", "'", "r",
    "e", " ", "j", "u", "s", "t", " ", "a", "t", " ", "t", "h", "e", " ", "n", "a", "t",
    "u", "r", "a", "l", " ", "t", "u", "r", "n", "i", "n", "g", " ", "p", "o", "i", "n",
    "t", " ", "U+2014", "\n", "w", "h", "e", "r", "e", " ", "s", "p", "e", "e", "d", " ",
    "m", "u", "s", "t", " ", "s", "t", "a", "r", "t", " ", "m", "e", "e", "t", "i", "n",
    "g", " ", "s", "t", "r", "u", "c", "t", "u", "r", "e", ".">>

placeholderNextStep ==
    <<"Y", "o", "u", " ", "d", "o", "n", "'", "t", " ", "n", "e", "e", "d", " ", "t", "o",
    " ", "s", "t", "a", "r", "t", " ", "o", "v", "e", "r", ".", "\n", "\n", "B", "u", "t",
    " ", "y", "o", "u", " ", "d", "o", " ", "n", "e", "e", "d", " ", "t", "o", " ", "g",
    "r", "a", "d", "u", "a", "t", "e", ".">>

placeholderReport ==
    [structuralViabilityScore |-> 0,
     stage |-> <<"A", "w", "a", "i", "t", "i", "n", "g", " ", "A", "n", "a", "l", "y", "s", "i", "s">>,
     summary |-> placeholderSummary,
     recommendedNextStep |-> placeholderNextStep,
     risks |-> << >>]

-----------------------------------------------------------------------------
(* The Risk-Type Translator                                                 *)

Tag_APICallInUI == <<"A", "P", "I", "C", "a", "l", "l", "I", "n", "U", "I">>

Tag_LogicInUI == <<"L", "o", "g", "i", "c", "I", "n", "U", "I">>

Tag_FlatStructure == <<"F", "l", "a", "t", "S", "t", "r", "u", "c", "t", "u", "r", "e">>

Tag_HugeComponent == <<"H", "u", "g", "e", "C", "o", "m", "p", "o", "n", "e", "n", "t">>

Tag_CircularImport == <<"C", "i", "r", "c", "u", "l", "a", "r", "I", "m", "p", "o", "r", "t">>

\* the case labels of the switch
KnownTags ==
    {Tag_APICallInUI, Tag_LogicInUI, Tag_FlatStructure, Tag_HugeComponent,
     Tag_CircularImport}

\* the five cases of the switch
KnownTranslation(tag) ==
    CASE tag = Tag_APICallInUI ->
           [label |-> <<"B", "u", "s", "i", "n", "e", "s", "s", " ", "l", "o", "g", "i", "c", " ", "m", "i",
                        "x", "e", "d", " ", "i", "n", "t", "o", " ", "U", "I">>,
            severity |-> <<"U+1F534", " ", "H", "i", "g", "h", " ", "R", "i", "s", "k">>,
            message |->
                <<"W", "o", "r", "k", "s", " ", "f", "o", "r", " ", "d", "e", "m", "o", "s", ",", " ",
                  "b", "u", "t", " ", "f", "r", "a", "g", "i", "l", "e", " ", "w", "h", "e", "n", " ",
                  "a", "d", "d", "i", "n", "g", " ", "a", "u", "t", "h", ",", " ", "w", "o", "r", "k",
                  "f", "l", "o", "w", "s", ",", " ", "o", "r", " ", "t", "e", "a", "m", " ", "f", "e",
                  "a", "t", "u", "r", "e", "s", ".">>]
      [] tag = Tag_LogicInUI ->
           [label |-> <<"L", "o", "g", "i", "c", " ", "t", "a", "n", "g", "l", "e", "d", " ", "i", "n", "s",
                        "i", "d", "e", " ", "c", "o", "m", "p", "o", "n", "e", "n", "t", "s">>,
            severity |-> <<"U+1F7E0", " ", "M", "e", "d", "i", "u", "m", " ", "R", "i", "s", "k">>,
            message |->
                <<"H", "a", "r", "d", " ", "t", "o", " ", "t", "e", "s", "t", ",", " ", "h", "a", "r",
                  "d", " ", "t", "o", " ", "c", "h", "a", "n", "g", "e", " ", "U+2014", " ", "e", "v",
                  "e", "r", "y", " ", "n", "e", "w", " ", "f", "e", "a", "t", "u", "r", "e", " ", "i",
                  "n", "c", "r", "e", "a", "s", "e", "s", " ", "r", "i", "s", "k", ".">>]
      [] tag = Tag_FlatStructure ->
           [label |-> <<"P", "r", "o", "t", "o", "t", "y", "p", "e", "-", "o", "n", "l", "y", " ", "f", "o",
                        "l", "d", "e", "r", " ", "s", "t", "r", "u", "c", "t", "u", "r", "e">>,
            severity |-> <<"U+1F534", " ", "C", "r", "i", "t", "i", "c", "a", "l", " ", "R", "i", "s", "k">>,
            message |->
                <<"E", "v", "e", "r", "y", "t", "h", "i", "n", "g", " ", "l", "i", "v", "e", "s", " ",
                  "i", "n", " ", "o", "n", "e", " ", "f", "o", "l", "d", "e", "r", " ", "U+2014", " ",
                  "e", "v", "o", "l", "u", "t", "i", "o", "n", " ", "w", "i", "l", "l", " ", "b", "e",
                  " ", "p", "a", "i", "n", "f", "u", "l", ".">>]
      [] tag = Tag_HugeComponent ->
           [label |-> <<"G", "i", "a", "n", "t", " ", "'", "G", "o", "d", "'", " ", "c", "o", "m", "p", "o",
                        "n", "e", "n", "t">>,
            severity |-> <<"U+1F7E1", " ", "M", "e", "d", "i", "u", "m", "-", "L", "o", "w", " ", "R", "i", "s",
                           "k">>,
            message |->
                <<"O", "n", "e", " ", "f", "i", "l", "e", " ", "d", "o", "i", "n", "g", " ", "t", "o",
                  "o", " ", "m", "a", "n", "y", " ", "j", "o", "b", "s", " ", "U+2014", " ", "a", " ",
                  "s", "i", "g", "n", " ", "o", "f", " ", "s", "t", "r", "u", "c", "t", "u", "r", "a",
                  "l", " ", "f", "r", "a", "g", "i", "l", "i", "t", "y", ".">>]
      [] tag = Tag_CircularImport ->
           [label |-> <<"C", "i", "r", "c", "u", "l", "a", "r", " ", "d", "e", "p", "e", "n", "d", "e", "n",
                        "c", "y", " ", "r", "i", "s", "k">>,
            severity |-> <<"U+1F534", " ", "C", "r", "i", "t", "i", "c", "a", "l", " ", "R", "i", "s", "k">>,
            message |->
                <<"F", "e", "a", "t", "u", "r", "e", "s", " ", "b", "e", "g", "i", "n", " ", "t", "o",
                  " ", "b", "r", "e", "a", "k", " ", "r", "a", "n", "d", "o", "m", "l", "y", " ", "w",
                  "h", "e", "n", " ", "f", "i", "l", "e", "s", " ", "d", "e", "p", "e", "n", "d", " ",
                  "o", "n", " ", "e", "a", "c", "h", " ", "o", "t", "h", "e", "r", " ", "i", "n", " ",
                  "l", "o", "o", "p", "s", ".">>]

\* the default case: the label is the input as it came
UnknownTranslation(riskType) ==
    [label |-> riskType,
     severity |-> <<"U+26AA", " ", "U", "n", "k", "n", "o", "w", "n", " ", "R", "i", "s", "k">>,
     message |-> <<"R", "i", "s", "k", " ", "t", "y", "p", "e", " ", "n", "o", "t", " ", "r", "e", "c",
                   "o", "g", "n", "i", "z", "e", "d", " ", "U+2014", " ", "m", "a", "y", " ", "i", "n",
                   "d", "i", "c", "a", "t", "e", " ", "s", "t", "r", "u", "c", "t", "u", "r", "a", "l",
                   " ", "i", "s", "s", "u", "e", "s", ".">>]

\* A plausible slip: the switch is on the input as it came.
translateRisk_NoTrim(riskType) ==
    IF riskType \in KnownTags THEN KnownTranslation(riskType)
    ELSE UnknownTranslation(riskType)

\* A plausible slip: the default case echoes the trimmed input.
translateRisk_TrimmedLabel(riskType) ==
    LET normalized == Trim(riskType)
    IN  IF normalized \in KnownTags THEN KnownTranslation(normalized)
        ELSE UnknownTranslation(normalized)

translateRisk(riskType) ==
    LET normalized == Trim(riskType)
    IN  IF normalized \in KnownTags THEN KnownTranslation(normalized)
        ELSE UnknownTranslation(riskType)

-----------------------------------------------------------------------------
(* The Normalizer                                                           *)

\* A plausible slip: the fraction is cut off (Math.floor, or a half rounded
\* down).
MathRound_Floor(n) == n.floor

\* Math.round: the nearest integer, a half rounded towards +Infinity.
MathRound(n) == IF n.frac \in {"zero", "below"} THEN n.floor ELSE n.floor + 1

Min(a, b) == IF a <= b THEN a ELSE b

Max(a, b) == IF a >= b THEN a ELSE b

\* A plausible slip: the upper clamp is left out.
clampScore_NoUpperClamp(score) ==
    IF score.t # "number" \/ score.k = "NaN" THEN 0
    ELSE IF score.k # "finite" THEN 0
    ELSE Max(0, MathRound(score))

clampScore(score) ==
    IF score.t # "number" \/ score.k = "NaN" THEN 0
    ELSE IF score.k # "finite" THEN 0
    ELSE Min(100, Max(0, MathRound(score)))

\* A plausible slip: any string is accepted, a blank one too.
normalizeString_AnyString(value, fallback) ==
    IF value.t = "string" THEN Trim(value.s) ELSE fallback

\* A plausible slip: the string is returned as it came.
normalizeString_Untrimmed(value, fallback) ==
    IF value.t = "string" /\ Trim(value.s) # << >> THEN value.s
    ELSE fallback

normalizeString(value, fallback) ==
    IF value.t = "string" /\ Trim(value.s) # << >> THEN Trim(value.s)
    ELSE fallback

\* normalizeString called with the arguments value and fb, both JavaScript
\* values: an fb that is undefined (or left out) takes the default
\* 'Not provided' of the parameter.
normalizeStringOf(value, fb) ==
    normalizeString(value, IF fb = Undefined THEN NotProvided ELSE fb.s)

\* A plausible slip: filePath is read before file.
riskOfItem_PathFirst(item) ==
    IF item.t \notin {"object", "array"} THEN Null
    ELSE [type |-> normalizeString(Get(item, K_type), NotProvided),
          filePath |->
              normalizeString(Coalesce(Get(item, K_filePath), Get(item, K_file)),
                              NotProvided),
          explanation |->
              normalizeString(
                  Coalesce(Coalesce(Get(item, K_why), Get(item, K_whyItMatters)),
                           Get(item, K_explanation)),
                  NotProvided)]

\* A plausible slip: the explanation is read from why and whyItMatters only.
riskOfItem_NoExplanationAlias(item) ==
    IF item.t \notin {"object", "array"} THEN Null
    ELSE [type |-> normalizeString(Get(item, K_type), NotProvided),
          filePath |->
              normalizeString(Coalesce(Get(item, K_file), Get(item, K_filePath)),
                              NotProvided),
          explanation |->
              normalizeString(Coalesce(Get(item, K_why), Get(item, K_whyItMatters)),
                              NotProvided)]

\* The callback of value.map(...): null for an item that is no object,
\* else the normalized Risk.  typeof is 'object' for arrays too.
riskOfItem(item) ==
    IF item.t \notin {"object", "array"} THEN Null
    ELSE [type |-> normalizeString(Get(item, K_type), NotProvided),
          filePath |->
              normalizeString(Coalesce(Get(item, K_file), Get(item, K_filePath)),
                              NotProvided),
          explanation |->
              normalizeString(
                  Coalesce(Coalesce(Get(item, K_why), Get(item, K_whyItMatters)),
                           Get(item, K_explanation)),
                  NotProvided)]

\* A plausible slip: an element that is no object is replaced by an
\* all-fallback Risk instead of being dropped.
RECURSIVE MapFilterRisks_Placeholder(_)
MapFilterRisks_Placeholder(items) ==
    IF items = << >> THEN << >>
    ELSE LET r == riskOfItem(Head(items))
         IN  IF r = Null
             THEN <<[type |-> NotProvided, filePath |-> NotProvided,
                     explanation |-> NotProvided]>>
                  \o MapFilterRisks_Placeholder(Tail(items))
             ELSE <<r>> \o MapFilterRisks_Placeholder(Tail(items))

RECURSIVE MapFilterRisks(_)
MapFilterRisks(items) ==
    IF items = << >> THEN << >>
    ELSE LET r == riskOfItem(Head(items))
         IN  IF r = Null THEN MapFilterRisks(Tail(items))
             ELSE <<r>> \o MapFilterRisks(Tail(items))

asRiskArray(value) ==
    IF value.t # "array" THEN << >> ELSE MapFilterRisks(value.items)

\* The TypeError of reading a property of null or undefined.
TypeError == [threw |-> "TypeError"]

\* A plausible slip: the alternate names are read first.
mapToReport_AliasFirst(raw) ==
    IF Nullish(raw) THEN TypeError
    ELSE
      LET score == Coalesce(Get(raw, K_viabilityScore),
                            Get(raw, K_structuralViabilityScore))
      IN  [structuralViabilityScore |-> clampScore(score),
           stage |-> normalizeString(Get(raw, K_stage), NotProvided),
           summary |-> normalizeString(Get(raw, K_summary), placeholderReport.summary),
           recommendedNextStep |->
               normalizeString(
                   Coalesce(Get(raw, K_nextStep), Get(raw, K_recommendedNextStep)),
                   placeholderReport.recommendedNextStep),
           risks |-> asRiskArray(Get(raw, K_risks))]

\* A plausible slip: summary and next step fall back to 'Not provided' like
\* the other strings.
mapToReport_GenericFallback(raw) ==
    IF Nullish(raw) THEN TypeError
    ELSE
      LET score == Coalesce(Get(raw, K_structuralViabilityScore),
                            Get(raw, K_viabilityScore))
      IN  [structuralViabilityScore |-> clampScore(score),
           stage |-> normalizeString(Get(raw, K_stage), NotProvided),
           summary |-> normalizeString(Get(raw, K_summary), NotProvided),
           recommendedNextStep |->
               normalizeString(
                   Coalesce(Get(raw, K_recommendedNextStep), Get(raw, K_nextStep)),
                   NotProvided),
           risks |-> asRiskArray(Get(raw, K_risks))]

mapToReport(raw) ==
    IF Nullish(raw) THEN TypeError
    ELSE
      LET score == Coalesce(Get(raw, K_structuralViabilityScore),
                            Get(raw, K_viabilityScore))
      IN  [structuralViabilityScore |-> clampScore(score),
           stage |-> normalizeString(Get(raw, K_stage), NotProvided),
           summary |-> normalizeString(Get(raw, K_summary), placeholderReport.summary),
           recommendedNextStep |->
               normalizeString(
                   Coalesce(Get(raw, K_recommendedNextStep), Get(raw, K_nextStep)),
                   placeholderReport.recommendedNextStep),
           risks |-> asRiskArray(Get(raw, K_risks))]

-----------------------------------------------------------------------------
(* The ArcSight executive summary                                           *)

UpperCaseLetters ==
    <<"A", "B", "C", "D", "E", "F", "G", "H", "I", "J", "K", "L", "M",
      "N", "O", "P", "Q", "R", "S", "T", "U", "V", "W", "X", "Y", "Z">>

LowerCaseLetters ==
    <<"a", "b", "c", "d", "e", "f", "g", "h", "i", "j", "k", "l", "m",
      "n", "o", "p", "q", "r", "s", "t", "u", "v", "w", "x", "y", "z">>

\* the lower case of the upper-case letters
LowerCaseOf ==
    [c \in {UpperCaseLetters[n] : n \in DOMAIN UpperCaseLetters} |->
        LowerCaseLetters[CHOOSE n \in DOMAIN UpperCaseLetters : UpperCaseLetters[n] = c]]

\* the lower case of one character (of the letters that occur in this model)
LowerOf(c) == IF c \in DOMAIN LowerCaseOf THEN LowerCaseOf[c] ELSE c

\* String.prototype.toLowerCase
toLowerCase(s) == [n \in 1..Len(s) |-> LowerOf(s[n])]

\* String.prototype.includes
includes(s, k) ==
    \E n \in 1..(Len(s) - Len(k) + 1) : SubSeq(s, n, n + Len(k) - 1) = k

\* the severities of the type Insight
Sev_high == <<"h", "i", "g", "h">>

Sev_medium == <<"m", "e", "d", "i", "u", "m">>

Sev_low == <<"l", "o", "w">>

\* insights.filter((i) => i.severity === tag).length
CountOf_AnyCase(list, tag) ==
    Len(SelectSeq(list, LAMBDA i : toLowerCase(i.severity) = tag))

CountOf(list, tag) == Len(SelectSeq(list, LAMBDA i : i.severity = tag))

\* the keywords looked for in the lower-cased titles, flag by flag
DatabaseKeywords == {<<"d", "a", "t", "a", "b", "a", "s", "e">>, <<"s", "h", "a", "r", "e", "d">>, <<"s", "c", "h", "e", "m", "a">>}

BottleneckKeywords == {<<"a", "u", "t", "h">>, <<"i", "d", "e", "n", "t", "i", "t", "y">>, <<"b", "o", "t", "t", "l", "e", "n", "e", "c", "k">>, <<"g", "o", "d">>}

ExternalKeywords == {<<"s", "t", "r", "i", "p", "e">>, <<"3", "r", "d", " ", "p", "a", "r", "t", "y">>, <<"e", "x", "t", "e", "r", "n", "a", "l">>, <<"i", "n", "t", "e", "g", "r", "a", "t", "i", "o", "n">>}

CrossDomainKeywords == {<<"c", "r", "o", "s", "s", "-", "d", "o", "m", "a", "i", "n">>, <<"c", "o", "u", "p", "l", "i", "n", "g">>, <<"d", "o", "m", "a", "i", "n">>}

\* i.title.toLowerCase().includes(k) for some k of the keywords
TitleHas(i, keywords) ==
    LET lowered == toLowerCase(i.title)
    IN  \E k \in keywords : includes(lowered, k)

\* A plausible slip: the title is searched as it is written.
SomeTitleHas_CaseSensitive(list, keywords) ==
    \E n \in 1..Len(list) : \E k \in keywords : includes(list[n].title, k)

\* insights.some((i) => ...)
SomeTitleHas(list, keywords) ==
    \E n \in 1..Len(list) : TitleHas(list[n], keywords)

\* the keywords of the signal classification, branch by branch
DatabaseSignalKeywords == {<<"d", "a", "t", "a", "b", "a", "s", "e">>, <<"s", "h", "a", "r", "e", "d">>}

BottleneckSignalKeywords == {<<"a", "u", "t", "h">>, <<"b", "o", "t", "t", "l", "e", "n", "e", "c", "k">>}

ExternalSignalKeywords == {<<"s", "t", "r", "i", "p", "e">>, <<"i", "n", "t", "e", "g", "r", "a", "t", "i", "o", "n">>}

CrossDomainSignalKeywords == {<<"c", "r", "o", "s", "s", "-", "d", "o", "m", "a", "i", "n">>, <<"c", "o", "u", "p", "l", "i", "n", "g">>}

Signal_Database == <<"S", "h", "a", "r", "e", "d", " ", "D", "a", "t", "a", "b", "a", "s", "e", " ", "R",
                     "i", "s", "k">>

Signal_Bottleneck == <<"S", "t", "r", "u", "c", "t", "u", "r", "a", "l", " ", "B", "o", "t", "t", "l", "e",
                       "n", "e", "c", "k">>

Signal_External == <<"E", "x", "t", "e", "r", "n", "a", "l", " ", "A", "P", "I", " ", "B", "l", "a", "s",
                     "t", " ", "R", "a", "d", "i", "u", "s">>

Signal_CrossDomain == <<"C", "r", "o", "s", "s", "-", "D", "o", "m", "a", "i", "n", " ", "C", "o", "u", "p",
                        "l", "i", "n", "g">>

\* the if / else-if chain of the map callback
signalOf(i) ==
    IF TitleHas(i, DatabaseSignalKeywords) THEN Signal_Database
    ELSE IF TitleHas(i, BottleneckSignalKeywords) THEN Signal_Bottleneck
    ELSE IF TitleHas(i, ExternalSignalKeywords) THEN Signal_External
    ELSE IF TitleHas(i, CrossDomainSignalKeywords) THEN Signal_CrossDomain
    ELSE i.title

\* .slice(0, 3)
TopCount == 3

\* Array.prototype.slice(0, n)
SliceFromStart(list, n) == SubSeq(list, 1, Min(n, Len(list)))

\* A plausible slip: the slice is taken before the filter.
topFragilities_SliceFirst(list) ==
    LET kept == SelectSeq(SliceFromStart(list, TopCount),
                          LAMBDA i : i.severity = Sev_high \/ i.severity = Sev_medium)
    IN  [n \in 1..Len(kept) |-> [signal |-> signalOf(kept[n]), summary |-> kept[n].summary]]

\* insights.filter(...).slice(0, 3).map(...)
topFragilities(list) ==
    LET kept == SliceFromStart(
                    SelectSeq(list, LAMBDA i : i.severity = Sev_high \/ i.severity = Sev_medium),
                    TopCount)
    IN  [n \in 1..Len(kept) |-> [signal |-> signalOf(kept[n]), summary |-> kept[n].summary]]

DecimalDigits == <<"0", "1", "2", "3", "4", "5", "6", "7", "8", "9">>

\* a count in a template literal: its decimal digits
RECURSIVE NumberToString(_)
NumberToString(n) ==
    IF n < 10 THEN <<DecimalDigits[n + 1]>>
    ELSE NumberToString(n \div 10) \o <<DecimalDigits[(n % 10) + 1]>>

\* Array.prototype.join
RECURSIVE join(_, _)
join(parts, sep) ==
    IF parts = << >> THEN << >>
    ELSE IF Len(parts) = 1 THEN parts[1]
    ELSE parts[1] \o sep \o join(Tail(parts), sep)

\* the three conditional pushes
severityText(counts) ==
    (IF counts.high > 0 THEN <<NumberToString(counts.high) \o <<" ", "H", "i", "g", "h", "-", "S", "e", "v", "e", "r", "i", "t", "y">>>> ELSE << >>)
    \o (IF counts.medium > 0 THEN <<NumberToString(counts.medium) \o <<" ", "M", "o", "d", "e", "r", "a", "t", "e">>>> ELSE << >>)
    \o (IF counts.low > 0 THEN <<NumberToString(counts.low) \o <<" ", "L", "o", "w", "-", "S", "e", "v", "e", "r", "i", "t", "y">>>> ELSE << >>)

Narrative_Head == <<"A", "r", "c", "S", "i", "g", "h", "t", " ", "d", "e", "t", "e", "c", "t", "e", "d",
                    " ">>

Narrative_Tail ==
    <<" ", "t", "h", "a", "t", " ", "c", "o", "u", "l", "d", " ", "i", "m", "p", "a", "c",
      "t", " ", "a", "r", "c", "h", "i", "t", "e", "c", "t", "u", "r", "a", "l", " ", "s",
      "t", "a", "b", "i", "l", "i", "t", "y", ",", " ", "m", "i", "g", "r", "a", "t", "i",
      "o", "n", " ", "f", "e", "a", "s", "i", "b", "i", "l", "i", "t", "y", ",", " ", "a",
      "n", "d", " ", "l", "o", "n", "g", "-", "t", "e", "r", "m", " ", "r", "o", "a", "d",
      "m", "a", "p", " ", "a", "g", "i", "l", "i", "t", "y", ".">>

Narrative_HighClause == <<" ", "T", "h", "e", "s", "e", " ", "s", "t", "r", "u", "c", "t", "u", "r", "a", "l",
                          " ", "f", "r", "a", "g", "i", "l", "i", "t", "i", "e", "s", " ", "c", "a", "n", " ",
                          "l", "e", "a", "d", " ", "t", "o", ":">>

\* A plausible slip: the noun follows the number of clauses.
narrativeOf_NounByClauses(counts, total) ==
    Narrative_Head
    \o join(severityText(counts), <<" ", "a", "n", "d", " ">>)
    \o (IF Len(severityText(counts)) > 1 THEN <<" ", "r", "i", "s", "k", "s">> ELSE <<" ", "r", "i", "s", "k">>)
    \o Narrative_Tail
    \o (IF counts.high > 0 THEN Narrative_HighClause ELSE << >>)

\* riskText, narrative and the clause added when hasHighRisk
narrativeOf(counts, total) ==
    Narrative_Head
    \o join(severityText(counts), <<" ", "a", "n", "d", " ">>)
    \o (IF total > 1 THEN <<" ", "r", "i", "s", "k", "s">> ELSE <<" ", "r", "i", "s", "k">>)
    \o Narrative_Tail
    \o (IF counts.high > 0 THEN Narrative_HighClause ELSE << >>)

\* the value of the useMemo of ArcSightExecutiveSummary
analysis(list) ==
    LET counts == [high |-> CountOf(list, Sev_high),
                   medium |-> CountOf(list, Sev_medium),
                   low |-> CountOf(list, Sev_low)]
        total == Len(list)
    IN  [counts |-> counts,
         total |-> total,
         hasHighRisk |-> counts.high > 0,
         hasDatabaseRisk |-> SomeTitleHas(list, DatabaseKeywords),
         hasBottleneck |-> SomeTitleHas(list, BottleneckKeywords),
         hasExternalDependency |-> SomeTitleHas(list, ExternalKeywords),
         hasCrossDomain |-> SomeTitleHas(list, CrossDomainKeywords),
         topFragilities |-> topFragilities(list),
         narrative |-> narrativeOf(counts, total)]

-----------------------------------------------------------------------------
(* The ArcSight dashboard                                                   *)

\* An Insight is modelled by its id, title, severity and summary; files and
\* recommendation are only handed on to the card of the insight.
Insight(id, title, severity, summary) ==
    [id |-> id, title |-> title, severity |-> severity, summary |-> summary]

\* the module's list of insights as written in the source
HardcodedInsights ==
    <<Insight(1, <<"S", "h", "a", "r", "e", "d", " ", "D", "a", "t", "a", "b", "a", "s", "e", " ", "F",
                   "r", "a", "g", "i", "l", "i", "t", "y">>, Sev_high,
              <<"M", "u", "l", "t", "i", "p", "l", "e", " ", "s", "e", "r", "v", "i", "c", "e", "s",
                " ", "(", "a", "u", "t", "h", ",", " ", "b", "i", "l", "l", "i", "n", "g", ",", " ",
                "s", "u", "b", "s", "c", "r", "i", "p", "t", "i", "o", "n", "s", ")", " ", "a", "r",
                "e", " ", "w", "r", "i", "t", "i", "n", "g", " ", "t", "o", " ", "t", "h", "e", " ",
                "s", "a", "m", "e", " ", "S", "u", "p", "a", "b", "a", "s", "e", " ", "P", "o", "s",
                "t", "g", "r", "e", "s", " ", "s", "c", "h", "e", "m", "a", ".">>),
      Insight(2, <<"A", "u", "t", "h", " ", "S", "e", "r", "v", "i", "c", "e", " ", "a", "s", " ", "S",
                   "t", "r", "u", "c", "t", "u", "r", "a", "l", " ", "B", "o", "t", "t", "l", "e", "n",
                   "e", "c", "k">>, Sev_high,
              <<"a", "u", "t", "h", "-", "s", "e", "r", "v", "i", "c", "e", " ", "h", "a", "n", "d",
                "l", "e", "s", " ", "b", "o", "t", "h", " ", "i", "d", "e", "n", "t", "i", "t", "y",
                " ", "A", "N", "D", " ", "b", "i", "l", "l", "i", "n", "g", " ", "v", "e", "r", "i",
                "f", "i", "c", "a", "t", "i", "o", "n", " ", "U+2014", " ", "t", "i", "g", "h", "t",
                "l", "y", " ", "c", "o", "u", "p", "l", "i", "n", "g", " ", "2", " ", "b", "u", "s",
                "i", "n", "e", "s", "s", " ", "d", "o", "m", "a", "i", "n", "s", ".">>),
      Insight(3, <<"S", "t", "r", "i", "p", "e", " ", "I", "n", "t", "e", "g", "r", "a", "t", "i", "o",
                   "n", " ", "B", "l", "a", "s", "t", " ", "R", "a", "d", "i", "u", "s">>, Sev_medium,
              <<"S", "t", "r", "i", "p", "e", " ", "A", "P", "I", " ", "i", "s", " ", "d", "i", "r",
                "e", "c", "t", "l", "y", " ", "c", "a", "l", "l", "e", "d", " ", "f", "r", "o", "m",
                " ", "4", " ", "m", "o", "d", "u", "l", "e", "s", " ", "i", "n", "c", "l", "u", "d",
                "i", "n", "g", " ", "a", "u", "t", "h", ",", " ", "b", "i", "l", "l", "i", "n", "g",
                ",", " ", "a", "n", "d", " ", "w", "e", "b", "h", "o", "o", "k", "s", " ", "U+2014",
                " ", "i", "n", "c", "r", "e", "a", "s", "i", "n", "g", " ", "d", "e", "p", "l", "o",
                "y", "m", "e", "n", "t", " ", "r", "i", "s", "k", ".">>),
      Insight(4, <<"C", "r", "o", "s", "s", "-", "D", "o", "m", "a", "i", "n", " ", "D", "a", "t", "a",
                   "b", "a", "s", "e", " ", "W", "r", "i", "t", "e", " ", "F", "r", "a", "g", "i", "l",
                   "i", "t", "y">>, Sev_high,
              <<"A", "u", "t", "h", "e", "n", "t", "i", "c", "a", "t", "i", "o", "n", ",", " ", "B",
                "i", "l", "l", "i", "n", "g", ",", " ", "a", "n", "d", " ", "S", "u", "b", "s", "c",
                "r", "i", "p", "t", "i", "o", "n", " ", "d", "o", "m", "a", "i", "n", "s", " ", "a",
                "r", "e", " ", "a", "l", "l", " ", "d", "i", "r", "e", "c", "t", "l", "y", " ", "w",
                "r", "i", "t", "i", "n", "g", " ", "t", "o", " ", "t", "h", "e", " ", "s", "a", "m",
                "e", " ", "U+0060", "u", "s", "e", "r", "s", "U+0060", " ", "t", "a", "b", "l", "e",
                " ", "U+2014", " ", "c", "r", "e", "a", "t", "i", "n", "g", " ", "s", "t", "r", "u",
                "c", "t", "u", "r", "a", "l", " ", "c", "o", "u", "p", "l", "i", "n", "g", " ", "a",
                "n", "d", " ", "f", "u", "t", "u", "r", "e", " ", "m", "i", "g", "r", "a", "t", "i",
                "o", "n", " ", "a", "n", "d", " ", "c", "o", "m", "p", "l", "i", "a", "n", "c", "e",
                " ", "r", "i", "s", "k", ".">>)>>

\* type FilterType
Filter_All == <<"A", "l", "l">>

Filter_High == <<"H", "i", "g", "h">>

Filter_Medium == <<"M", "e", "d", "i", "u", "m">>

Filter_Low == <<"L", "o", "w">>

filterButtons == <<Filter_All, Filter_High, Filter_Medium, Filter_Low>>

\* A plausible slip: the severity is compared with the filter as written.
filteredInsights_AsWritten ==
    IF activeFilter = Filter_All THEN insights
    ELSE SelectSeq(insights, LAMBDA insight : insight.severity = activeFilter)

\* the useMemo on activeFilter
filteredInsights ==
    IF activeFilter = Filter_All THEN insights
    ELSE SelectSeq(insights,
                   LAMBDA insight :
                       toLowerCase(insight.severity) = toLowerCase(activeFilter))

\* the useMemo on filteredInsights: each insight is pushed to one array
groupedInsights ==
    [high |-> SelectSeq(filteredInsights, LAMBDA insight : insight.severity = Sev_high),
     medium |-> SelectSeq(filteredInsights,
                          LAMBDA insight :
                              insight.severity # Sev_high /\ insight.severity = Sev_medium),
     low |-> SelectSeq(filteredInsights,
                       LAMBDA insight :
                           insight.severity # Sev_high /\ insight.severity # Sev_medium)]

\* the "No insights found for the selected filter." paragraph
EmptyStateShown == Len(filteredInsights) = 0

-----------------------------------------------------------------------------
(* The stage pills of the report page                                       *)

stageDefinitions ==
    <<[stage |-> <<"U+1F7E2", " ", "P", "r", "o", "t", "o", "t", "y", "p", "e">>,
       description |-> <<"F", "a", "s", "t", " ", "t", "o", " ", "b", "u", "i", "l", "d", ",", " ", "f", "r",
                         "a", "g", "i", "l", "e", " ", "t", "o", " ", "s", "c", "a", "l", "e">>],
      [stage |-> <<"U+1F7E1", " ", "G", "r", "a", "d", "u", "a", "t", "i", "o", "n", " ", "M", "o", "m",
                   "e", "n", "t">>,
       description |-> <<"W", "o", "r", "k", "s", " ", "n", "o", "w", ",", " ", "b", "u", "t", " ", "w", "i",
                         "l", "l", " ", "b", "r", "e", "a", "k", " ", "w", "h", "e", "n", " ", "y", "o", "u",
                         " ", "a", "d", "d", " ", "r", "e", "a", "l", " ", "f", "e", "a", "t", "u", "r", "e",
                         "s">>],
      [stage |-> <<"U+1F535", " ", "P", "r", "o", "d", "u", "c", "t", "-", "R", "e", "a", "d", "y">>,
       description |-> <<"S", "t", "r", "u", "c", "t", "u", "r", "e", "d", ",", " ", "m", "o", "d", "u", "l",
                         "a", "r", ",", " ", "s", "a", "f", "e", " ", "t", "o", " ", "e", "v", "o", "l", "v",
                         "e">>]>>

\* the indexes of stageDefinitions.map, which count from 0
StageIndexes == {n - 1 : n \in DOMAIN stageDefinitions}

\* A plausible slip: only the exact name counts.
isCurrent_Exact(stage) == stage = <<"G", "r", "a", "d", "u", "a", "t", "i", "o", "n", " ", "M", "o", "m", "e", "n", "t">>

isCurrent(stage) ==
    stage = <<"G", "r", "a", "d", "u", "a", "t", "i", "o", "n", " ", "M", "o", "m", "e", "n", "t">> \/ includes(stage, <<"G", "r", "a", "d", "u", "a", "t", "i", "o", "n">>)

\* the pill with this index has the ring
isActive(stage, index) ==
    \/ isCurrent(stage) /\ index = 1
    \/ ~isCurrent(stage) /\ index = 0

-----------------------------------------------------------------------------
(* JSON.parse                                                               *)

\* The text of a file is kept as its sequence of lexemes: the six
\* punctuators, string and number literals, true, false, null, and "bad"
\* for a run of characters that is no JSON lexeme (a bare word).
P(p) == [k |-> p]

TStr(s) == [k |-> "string", s |-> s]

TNum(i, fr) == [k |-> "number", floor |-> i, frac |-> fr]

SyntaxError == [ok |-> FALSE]

Parsed(v, next) == [ok |-> TRUE, v |-> v, next |-> next]

RECURSIVE ParseValue(_, _), ParseElements(_, _, _), ParseMembers(_, _, _, _)

\* value at lexeme i: the value and the index after it, or SyntaxError
ParseValue(ts, i) ==
    IF i > Len(ts) THEN SyntaxError
    ELSE LET tk == ts[i]
         IN  CASE tk.k = "string" -> Parsed(Str(tk.s), i + 1)
               [] tk.k = "number" -> Parsed(Num(tk.floor, tk.frac), i + 1)
               [] tk.k = "true" -> Parsed(Bool(TRUE), i + 1)
               [] tk.k = "false" -> Parsed(Bool(FALSE), i + 1)
               [] tk.k = "null" -> Parsed(Null, i + 1)
               [] tk.k = "[" ->
                    IF i + 1 <= Len(ts) /\ ts[i + 1].k = "]"
                    THEN Parsed(Arr(<< >>), i + 2)
                    ELSE ParseElements(ts, i + 1, << >>)
               [] tk.k = "{" ->
                    IF i + 1 <= Len(ts) /\ ts[i + 1].k = "}"
                    THEN Parsed(EmptyObj, i + 2)
                    ELSE ParseMembers(ts, i + 1, << >>, << >>)
               [] OTHER -> SyntaxError

\* elements of an array from lexeme i on, acc the elements read so far
ParseElements(ts, i, acc) ==
    LET r == ParseValue(ts, i)
    IN  IF ~r.ok \/ r.next > Len(ts) THEN SyntaxError
        ELSE IF ts[r.next].k = "," THEN ParseElements(ts, r.next + 1, Append(acc, r.v))
        ELSE IF ts[r.next].k = "]" THEN Parsed(Arr(Append(acc, r.v)), r.next + 1)
        ELSE SyntaxError

\* members of an object from lexeme i on, ks and vs the names and values so far
ParseMembers(ts, i, ks, vs) ==
    IF i + 1 > Len(ts) \/ ts[i].k # "string" \/ ts[i + 1].k # ":" THEN SyntaxError
    ELSE LET r == ParseValue(ts, i + 2)
         IN  IF ~r.ok \/ r.next > Len(ts) THEN SyntaxError
             ELSE IF ts[r.next].k = ","
                  THEN ParseMembers(ts, r.next + 1, Append(ks, ts[i].s), Append(vs, r.v))
             ELSE IF ts[r.next].k = "}"
                  THEN Parsed(ObjOf(Append(ks, ts[i].s), Append(vs, r.v)), r.next + 1)
             ELSE SyntaxError

\* JSON.parse(text): the value, or SyntaxError when the text is not one
\* JSON value exactly.
JSONParse(ts) ==
    LET r == ParseValue(ts, 1)
    IN  IF r.ok /\ r.next = Len(ts) + 1 THEN r ELSE SyntaxError

-----------------------------------------------------------------------------
(* The files a user may select                                              *)

File(name, text) == [name |-> name, text |-> text]

\* {"structuralViabilityScore": 130, "stage": "Graduation", "risks": []}
FileGraduation ==
    File(<<"a", ".", "j", "s", "o", "n">>,
         <<P("{"), TStr(K_structuralViabilityScore), P(":"), TNum(130, "zero"), P(","),
           TStr(K_stage), P(":"), TStr(<<"G", "r", "a", "d", "u", "a", "t", "i", "o", "n">>), P(","),
           TStr(K_risks), P(":"), P("["), P("]"), P("}")>>)

\* {"viabilityScore": 42.5, "summary": " First summary ", "nextStep": "Refactor",
\*  "risks": [{"type": "APICallInUI", "filePath": "x.ts", "why": "reason"}, 1, null,
\*            {"file": "a.ts", "filePath": "b.ts"}]}
FileAliases ==
    File(<<"b", ".", "j", "s", "o", "n">>,
         <<P("{"), TStr(K_viabilityScore), P(":"), TNum(42, "half"), P(","),
           TStr(K_summary), P(":"), TStr(<<" ", "F", "i", "r", "s", "t", " ", "s", "u", "m", "m", "a", "r", "y", " ">>), P(","),
           TStr(K_nextStep), P(":"), TStr(<<"R", "e", "f", "a", "c", "t", "o", "r">>), P(","),
           TStr(K_risks), P(":"), P("["),
           P("{"), TStr(K_type), P(":"), TStr(<<"A", "P", "I", "C", "a", "l", "l", "I", "n", "U", "I">>), P(","),
           TStr(K_filePath), P(":"), TStr(<<"x", ".", "t", "s">>), P(","),
           TStr(K_why), P(":"), TStr(<<"r", "e", "a", "s", "o", "n">>), P("}"), P(","),
           TNum(1, "zero"), P(","), P("null"), P(","),
           P("{"), TStr(K_file), P(":"), TStr(<<"a", ".", "t", "s">>), P(","),
           TStr(K_filePath), P(":"), TStr(<<"b", ".", "t", "s">>), P("}"),
           P("]"), P("}")>>)

\* {"structuralViabilityScore": "78", "stage": 42, "summary": null, "risks": "x"}
FileMalformedFields ==
    File(<<"c", ".", "j", "s", "o", "n">>,
         <<P("{"), TStr(K_structuralViabilityScore), P(":"), TStr(<<"7", "8">>), P(","),
           TStr(K_stage), P(":"), TNum(42, "zero"), P(","),
           TStr(K_summary), P(":"), P("null"), P(","),
           TStr(K_risks), P(":"), TStr(<<"x">>), P("}")>>)

\* {not json
FileNotJson == File(<<"b", "a", "d", ".", "j", "s", "o", "n">>, <<P("{"), P("bad"), P("bad")>>)

\* {"stage": "Graduation",      (the text ends inside the object)
FileTruncated ==
    File(<<"c", "u", "t", ".", "j", "s", "o", "n">>, <<P("{"), TStr(K_stage), P(":"), TStr(<<"G", "r", "a", "d", "u", "a", "t", "i", "o", "n">>), P(",")>>)

\* 42
FileNumber == File(<<"n", "u", "m", ".", "j", "s", "o", "n">>, <<TNum(42, "zero")>>)

\* "Graduation"
FileString == File(<<"s", "t", "r", ".", "j", "s", "o", "n">>, <<TStr(<<"G", "r", "a", "d", "u", "a", "t", "i", "o", "n">>)>>)

\* true
FileBoolean == File(<<"b", "o", "o", "l", ".", "j", "s", "o", "n">>, <<P("true")>>)

\* [{"stage": "Graduation"}]
FileArray ==
    File(<<"a", "r", "r", ".", "j", "s", "o", "n">>,
         <<P("["), P("{"), TStr(K_stage), P(":"), TStr(<<"G", "r", "a", "d", "u", "a", "t", "i", "o", "n">>), P("}"), P("]")>>)

\* null
FileNull == File(<<"n", "u", "l", "l", ".", "j", "s", "o", "n">>, <<P("null")>>)

Files ==
    {FileGraduation, FileAliases, FileMalformedFields, FileNotJson, FileTruncated,
     FileNumber, FileString, FileBoolean, FileArray, FileNull}

-----------------------------------------------------------------------------
(* ReportPage: the state and the upload handler                             *)

\* 'We could not parse that file. Please confirm it is valid JSON.'
ParseErrorMessage ==
    <<"W", "e", " ", "c", "o", "u", "l", "d", " ", "n", "o", "t", " ", "p", "a", "r", "s",
      "e", " ", "t", "h", "a", "t", " ", "f", "i", "l", "e", ".", " ", "P", "l", "e", "a",
      "s", "e", " ", "c", "o", "n", "f", "i", "r", "m", " ", "i", "t", " ", "i", "s", " ",
      "v", "a", "l", "i", "d", " ", "J", "S", "O", "N", ".">>

\* 'Something went wrong while reading that file. Please try again.'
ReadErrorMessage ==
    <<"S", "o", "m", "e", "t", "h", "i", "n", "g", " ", "w", "e", "n", "t", " ", "w", "r",
      "o", "n", "g", " ", "w", "h", "i", "l", "e", " ", "r", "e", "a", "d", "i", "n", "g",
      " ", "t", "h", "a", "t", " ", "f", "i", "l", "e", ".", " ", "P", "l", "e", "a", "s",
      "e", " ", "t", "r", "y", " ", "a", "g", "a", "i", "n", ".">>

\* The number of FileReaders created in one run of the model.
MaxReads == 2

\* The state of the pure-function harness, which the page never touches.
NoCall == fn = "none" /\ arg = Undefined /\ result = Undefined

\* What the page displays.
Display ==
    [report |-> report, isPlaceholder |-> isPlaceholder, error |-> error,
     fileName |-> fileName]

Init ==
    /\ report = placeholderReport
    /\ isPlaceholder = TRUE
    /\ error = Null
    /\ fileName = Null
    /\ inputValue = << >>
    /\ pending = {}
    /\ nextRead = 1
    /\ last = [op |-> "init"]
    /\ insights = HardcodedInsights
    /\ activeFilter = Filter_All
    /\ NoCall

\* A plausible slip: a selection is refused while a read is pending.
SelectFile_WhenIdle(f) ==
    /\ pending = {}
    /\ nextRead <= MaxReads
    /\ error' = Null
    /\ inputValue' = f.name
    /\ pending' = pending \cup {[id |-> nextRead, file |-> f]}
    /\ nextRead' = nextRead + 1
    /\ last' = [op |-> "select", id |-> nextRead, file |-> f, before |-> Display]
    /\ UNCHANGED <<report, isPlaceholder, fileName, fn, arg, result,
                   insights, activeFilter>>

\* handleFileChange with a file chosen: clears the error, creates a
\* FileReader (the read nextRead) with its two callbacks and starts the read.
\* pending holds the reads started and not completed; last is the handler
\* that ran last, with what it ran on and what the page displayed before it.
SelectFile(f) ==
    /\ nextRead <= MaxReads
    /\ error' = Null
    /\ inputValue' = f.name
    /\ pending' = pending \cup {[id |-> nextRead, file |-> f]}
    /\ nextRead' = nextRead + 1
    /\ last' = [op |-> "select", id |-> nextRead, file |-> f, before |-> Display]
    /\ UNCHANGED <<report, isPlaceholder, fileName, fn, arg, result,
                   insights, activeFilter>>

\* handleFileChange with no file chosen (event.target.files is empty): returns
\* at once.
SelectNothing ==
    /\ inputValue' = << >>
    /\ last' = [op |-> "none", before |-> Display]
    /\ UNCHANGED <<report, isPlaceholder, error, fileName, pending, nextRead,
                   fn, arg, result,
                   insights, activeFilter>>

\* the buttons whose onClick is handleUploadClick
Buttons == {"Run ArcSight Scan", "Try Sample Report", "Upload JSON"}

\* the hero with the first two buttons is rendered while isPlaceholder, the
\* header with "Upload JSON" otherwise
ButtonShown(b) ==
    IF b = "Upload JSON" THEN ~isPlaceholder ELSE isPlaceholder

\* handleUploadClick: clicks the hidden file input, which opens the file
\* chooser; it sets no state of the page. What the user then chooses arrives
\* as SelectFile or SelectNothing.
handleUploadClick(b) ==
    /\ ButtonShown(b)
    /\ last' = [op |-> "click", button |-> b, before |-> Display]
    /\ UNCHANGED <<report, isPlaceholder, error, fileName, inputValue, pending,
                   nextRead, fn, arg, result,
                   insights, activeFilter>>

\* A plausible slip: the new report is spread over the one displayed, so a
\* field the file leaves out keeps its earlier value.
LoadSucceeded_Merge(r, normalized) ==
    /\ report' =
          [normalized EXCEPT
             !.summary =
                 IF Get(JSONParse(r.file.text).v, K_summary) = Undefined
                 THEN report.summary ELSE @]
    /\ isPlaceholder' = FALSE
    /\ fileName' = Str(r.file.name)
    /\ UNCHANGED error

\* The try block of reader.onload ran to its end: the normalized report is shown.
LoadSucceeded(r, normalized) ==
    /\ report' = normalized
    /\ isPlaceholder' = FALSE
    /\ fileName' = Str(r.file.name)
    /\ UNCHANGED error

\* A plausible slip: the catch block keeps the file name.
LoadFailed_KeepsName ==
    /\ error' = Str(ParseErrorMessage)
    /\ report' = placeholderReport
    /\ isPlaceholder' = TRUE
    /\ UNCHANGED fileName

\* The catch block of reader.onload.
LoadFailed ==
    /\ error' = Str(ParseErrorMessage)
    /\ report' = placeholderReport
    /\ isPlaceholder' = TRUE
    /\ fileName' = Null

\* A plausible slip: a file whose score is no number is rejected as unparsable.
ReaderOnLoad_Strict(r) ==
    /\ r \in pending
    /\ LET parsed == JSONParse(r.file.text)
           normalized == IF parsed.ok THEN mapToReport(parsed.v) ELSE TypeError
       IN  IF /\ parsed.ok
              /\ normalized # TypeError
              /\ Get(parsed.v, K_structuralViabilityScore).t = "number"
           THEN LoadSucceeded(r, normalized)
           ELSE LoadFailed
    /\ inputValue' = << >>
    /\ pending' = pending \ {r}
    /\ last' = [op |-> "onload", id |-> r.id, file |-> r.file, before |-> Display]
    /\ UNCHANGED <<nextRead, fn, arg, result,
                   insights, activeFilter>>

\* A request token: the callback of a read that is not the newest does nothing.
ReaderOnLoad_Token(r) ==
    /\ r \in pending
    /\ LET parsed == JSONParse(r.file.text)
           normalized == IF parsed.ok THEN mapToReport(parsed.v) ELSE TypeError
       IN  IF r.id # nextRead - 1
           THEN UNCHANGED <<report, isPlaceholder, fileName, error>>
           ELSE IF parsed.ok /\ normalized # TypeError
           THEN LoadSucceeded(r, normalized)
           ELSE LoadFailed
    /\ inputValue' = << >>
    /\ pending' = pending \ {r}
    /\ last' = [op |-> "onload", id |-> r.id, file |-> r.file, before |-> Display]
    /\ UNCHANGED <<nextRead, fn, arg, result,
                   insights, activeFilter>>

\* reader.onload of the pending read r: reader.result is the file's text
\* (readAsText yields a string, so the typeof test passes).  JSON.parse or
\* mapToReport throwing enters the catch block; the finally block clears the
\* input.
ReaderOnLoad(r) ==
    /\ r \in pending
    /\ LET parsed == JSONParse(r.file.text)
           normalized == IF parsed.ok THEN mapToReport(parsed.v) ELSE TypeError
       IN  IF parsed.ok /\ normalized # TypeError
           THEN LoadSucceeded(r, normalized)
           ELSE LoadFailed
    /\ inputValue' = << >>
    /\ pending' = pending \ {r}
    /\ last' = [op |-> "onload", id |-> r.id, file |-> r.file, before |-> Display]
    /\ UNCHANGED <<nextRead, fn, arg, result,
                   insights, activeFilter>>

\* A plausible slip: reader.onerror forgets the file name and keeps the report.
ReaderOnError_ClearsName(r) ==
    /\ r \in pending
    /\ error' = Str(ReadErrorMessage)
    /\ fileName' = Null
    /\ inputValue' = << >>
    /\ pending' = pending \ {r}
    /\ last' = [op |-> "onerror", id |-> r.id, file |-> r.file, before |-> Display]
    /\ UNCHANGED <<report, isPlaceholder, nextRead, fn, arg, result,
                   insights, activeFilter>>

\* reader.onerror of the pending read r.
ReaderOnError(r) ==
    /\ r \in pending
    /\ error' = Str(ReadErrorMessage)
    /\ inputValue' = << >>
    /\ pending' = pending \ {r}
    /\ last' = [op |-> "onerror", id |-> r.id, file |-> r.file, before |-> Display]
    /\ UNCHANGED <<report, isPlaceholder, fileName, nextRead, fn, arg, result,
                   insights, activeFilter>>

Next ==
    \/ \E f \in Files : SelectFile(f)
    \/ SelectNothing
    \/ \E b \in Buttons : handleUploadClick(b)
    \/ \E r \in pending : ReaderOnLoad(r)
    \/ \E r \in pending : ReaderOnError(r)

Spec == Init /\ [][Next]_vars

-----------------------------------------------------------------------------
(* The Normalizer's functions applied to bounded sets of inputs             *)

\* Longest string of the generated string inputs.
MaxStrLen == 3

\* Most properties of a generated object.
MaxFields == 3

\* Most elements of a generated array.
MaxItems == 3

Chars == {" ", "a", "b"}

\* every string over Chars of length <= n
Strings(n) == UNION {[1..m -> Chars] : m \in 0..n}

\* 78 and the numbers around the ends of [0,100]
ScoreFloors == {-5, -1, 0, 42, 78, 99, 100, 150}

Numbers == {Num(i, fr) : i \in ScoreFloors, fr \in Fractions}

Scalars ==
    {Undefined, Null, Bool(TRUE), Bool(FALSE), NaN, PosInfinity, NegInfinity,
     Str(<<"7", "8">>), Str(<<" ", " ", "a", " ", "b", " ">>)}
    \cup Numbers
    \cup {Str(s) : s \in Strings(MaxStrLen)}

\* the values a property of a generated object is bound to
FieldValues ==
    {Null, Num(42, "half"), Str(<< >>), Str(<<" ">>), Str(<<"a">>),
     Str(<<" ", "b", " ">>)}

RiskKeys == {K_type, K_file, K_filePath, K_why, K_whyItMatters, K_explanation}

\* every object with at most MaxFields of the names ks, bound to values of vs
ObjectsOver(ks, vs) ==
    {Obj(f) : f \in UNION {[S -> vs] : S \in {T \in SUBSET ks : Cardinality(T) <= MaxFields}}}

RiskObjects == ObjectsOver(RiskKeys, FieldValues)

\* elements of the generated arrays: values that are no object, and objects
Items ==
    {Num(1, "zero"), Str(<<"a">>), Bool(TRUE), Null, Arr(<< >>), EmptyObj,
     ObjOf(<<K_type>>, <<Str(<<"a">>)>>),
     ObjOf(<<K_type, K_file, K_why>>, <<Str(<<"b">>), Str(<<"a">>), Str(<<" ">>)>>)}

Arrays ==
    {Arr(s) : s \in UNION {[1..m -> Items] : m \in 0..MaxItems}}
    \cup {Arr(<<o>>) : o \in RiskObjects}

TopKeys ==
    {K_structuralViabilityScore, K_viabilityScore, K_stage, K_summary,
     K_recommendedNextStep, K_nextStep, K_risks}

TopValues ==
    {Null, Num(150, "zero"), Num(42, "half"), Str(<<" ">>), Str(<<" ", "b", " ">>),
     Arr(<<Num(1, "zero"), ObjOf(<<K_file, K_filePath>>, <<Str(<<"a">>), Str(<<"b">>)>>)>>)}

TopObjects == ObjectsOver(TopKeys, TopValues)

\* {"structuralViabilityScore": 130, "stage": "Graduation", "risks": []}
ExampleGraduation ==
    ObjOf(<<K_structuralViabilityScore, K_stage, K_risks>>,
          <<Num(130, "zero"), Str(<<"G", "r", "a", "d", "u", "a", "t", "i", "o", "n">>), Arr(<< >>)>>)

\* {"structuralViabilityScore": 10, "viabilityScore": 90}
ExampleBothScores ==
    ObjOf(<<K_structuralViabilityScore, K_viabilityScore>>,
          <<Num(10, "zero"), Num(90, "zero")>>)

\* {"viabilityScore": 90}
ExampleAliasScore == ObjOf(<<K_viabilityScore>>, <<Num(90, "zero")>>)

\* {"recommendedNextStep": "Split the API", "nextStep": "Refactor"}
ExampleBothNextSteps ==
    ObjOf(<<K_recommendedNextStep, K_nextStep>>,
          <<Str(<<"S", "p", "l", "i", "t", " ", "t", "h", "e", " ", "A", "P", "I">>), Str(<<"R", "e", "f", "a", "c", "t", "o", "r">>)>>)

\* {"type": "APICallInUI", "filePath": "x.ts", "why": "reason"}
ExampleRiskApiCall ==
    ObjOf(<<K_type, K_filePath, K_why>>,
          <<Str(<<"A", "P", "I", "C", "a", "l", "l", "I", "n", "U", "I">>), Str(<<"x", ".", "t", "s">>), Str(<<"r", "e", "a", "s", "o", "n">>)>>)

\* {"file": "a.ts", "filePath": "b.ts"}
ExampleRiskBothPaths ==
    ObjOf(<<K_file, K_filePath>>, <<Str(<<"a", ".", "t", "s">>), Str(<<"b", ".", "t", "s">>)>>)

\* {"why": "w", "whyItMatters": "m", "explanation": "e"}
ExampleRiskAllReasons ==
    ObjOf(<<K_why, K_whyItMatters, K_explanation>>,
          <<Str(<<"w">>), Str(<<"m">>), Str(<<"e">>)>>)

\* {"structuralViabilityScore": "78", "viabilityScore": 50}
ExampleStringScore ==
    ObjOf(<<K_structuralViabilityScore, K_viabilityScore>>,
          <<Str(<<"7", "8">>), Num(50, "zero")>>)

\* {"recommendedNextStep": "", "nextStep": "Refactor"}
ExampleEmptyNextStep ==
    ObjOf(<<K_recommendedNextStep, K_nextStep>>, <<Str(<< >>), Str(<<"R", "e", "f", "a", "c", "t", "o", "r">>)>>)

\* {"file": "", "filePath": "b.ts", "why": "   ", "explanation": "e"}
ExampleRiskBlankPreferred ==
    ObjOf(<<K_file, K_filePath, K_why, K_explanation>>,
          <<Str(<< >>), Str(<<"b", ".", "t", "s">>), Str(<<" ", " ", " ">>), Str(<<"e">>)>>)

\* {"file": 42, "filePath": "b.ts"}
ExampleRiskNumberFile ==
    ObjOf(<<K_file, K_filePath>>, <<Num(42, "zero"), Str(<<"b", ".", "t", "s">>)>>)

\* the inputs the claims name
Examples ==
    {ExampleGraduation, ExampleStringScore, ExampleEmptyNextStep,
     Arr(<<ExampleRiskBlankPreferred>>), Arr(<<ExampleRiskNumberFile>>), ExampleBothScores, ExampleAliasScore, ExampleBothNextSteps,
     ObjOf(<<K_risks>>, <<Arr(<<ExampleRiskApiCall>>)>>),
     ObjOf(<<K_risks>>, <<Arr(<<ObjOf(<<K_type>>, <<Str(<<"T", "o", "t", "a", "l", "l", "y", "N", "e", "w", "T", "a", "g">>)>>)>>)>>),
     Arr(<<Num(1, "zero"), Str(<<"x">>), Null, ObjOf(<<K_type>>, <<Str(<<"A">>)>>)>>),
     Arr(<<ExampleRiskBothPaths>>),
     Arr(<<ExampleRiskAllReasons>>)}

\* risk types: the known tags, one padded, one in lower case, unknown ones
RiskTypes ==
    {Str(t) : t \in KnownTags}
    \cup {Str(<<" ", "A", "P", "I", "C", "a", "l", "l", "I", "n", "U", "I", " ">>), Str(<<"a", "p", "i", "c", "a", "l", "l", "i", "n", "u", "i">>), Str(<<"T", "o", "t", "a", "l", "l", "y", "N", "e", "w", "T", "a", "g">>),
          Str(<<" ", "T", "o", "t", "a", "l", "l", "y", "N", "e", "w", "T", "a", "g">>), Str(NotProvided)}

\* stages: the three reference stages, in another case, inside a longer text
Stages ==
    {Str(<<"P", "r", "o", "t", "o", "t", "y", "p", "e">>), Str(<<"G", "r", "a", "d", "u", "a", "t", "i", "o", "n", " ", "M", "o", "m", "e", "n", "t">>), Str(<<"P", "r", "o", "d", "u", "c", "t", "-", "R", "e", "a", "d", "y">>),
     Str(<<"G", "r", "a", "d", "u", "a", "t", "i", "o", "n">>), Str(<<"g", "r", "a", "d", "u", "a", "t", "i", "o", "n">>), Str(<<" ", "P", "r", "e", "-", "G", "r", "a", "d", "u", "a", "t", "i", "o", "n", " ", "p",
                                        "h", "a", "s", "e", " ">>)}

Inputs ==
    Scalars \cup Arrays \cup TopObjects \cup Examples \cup RiskTypes \cup Stages

\* the page in its initial state, and one input not yet passed to a function
InitNormalizer ==
    /\ report = placeholderReport
    /\ isPlaceholder = TRUE
    /\ error = Null
    /\ fileName = Null
    /\ inputValue = << >>
    /\ pending = {}
    /\ nextRead = 1
    /\ last = [op |-> "init"]
    /\ insights = HardcodedInsights
    /\ activeFilter = Filter_All
    /\ fn = "none"
    /\ arg \in Inputs
    /\ result = Undefined

Call(name, value) ==
    /\ fn = "none"
    /\ fn' = name
    /\ result' = value
    /\ UNCHANGED <<arg, report, isPlaceholder, error, fileName, inputValue, pending,
                   nextRead, last, insights, activeFilter>>

CallClampScore == Call("clampScore", clampScore(arg))

CallAsRiskArray == Call("asRiskArray", asRiskArray(arg))

CallMapToReport == Call("mapToReport", mapToReport(arg))

\* A Report as the JavaScript object it is, to be passed where a raw value
\* is expected.
ToRaw(r) ==
    ObjOf(<<K_structuralViabilityScore, K_stage, K_summary, K_recommendedNextStep,
            K_risks>>,
          <<Num(r.structuralViabilityScore, "zero"), Str(r.stage), Str(r.summary),
            Str(r.recommendedNextStep),
            Arr([i \in 1..Len(r.risks) |->
                    ObjOf(<<K_type, K_filePath, K_explanation>>,
                          <<Str(r.risks[i].type), Str(r.risks[i].filePath),
                            Str(r.risks[i].explanation)>>)])>>)

\* mapToReport(arg), and mapToReport of that Report
CallMapToReportTwice ==
    Call("mapToReportTwice",
         LET once == mapToReport(arg)
         IN  [once |-> once,
              twice |-> IF once = TypeError THEN TypeError
                        ELSE mapToReport(ToRaw(once))])

\* translateRisk takes a string (the type of a normalized Risk)
CallTranslateRisk ==
    /\ arg.t = "string"
    /\ Call("translateRisk", translateRisk(arg.s))

\* the stage pills rendered for the report loaded from {"stage": arg}
CallStagePills ==
    /\ arg.t = "string"
    /\ Call("stagePills",
            LET loaded == mapToReport(ObjOf(<<K_stage>>, <<arg>>))
            IN  [stage |-> loaded.stage,
                 active |-> {index \in StageIndexes : isActive(loaded.stage, index)}])

\* the second argument of normalizeString: left out, or a placeholder text
Fallbacks == {Undefined, Str(placeholderNextStep)}

CallNormalizeString ==
    \E fb \in Fallbacks :
        Call("normalizeString",
             [fallback |-> fb, returned |-> normalizeStringOf(arg, fb)])

NextNormalizer ==
    \/ CallClampScore
    \/ CallAsRiskArray
    \/ CallMapToReport
    \/ CallNormalizeString
    \/ CallMapToReportTwice
    \/ CallTranslateRisk
    \/ CallStagePills

SpecNormalizer == InitNormalizer /\ [][NextNormalizer]_vars

-----------------------------------------------------------------------------
(* The ArcSight view: the analysis of the executive summary applied to      *)
(* generated lists of insights, and the filter buttons of the dashboard     *)

\* the longest generated list of insights
MaxInsights == 5

\* titles: one for each keyword, in mixed case, two with keywords of several
\* flags, one with no keyword
KeywordTitles ==
    {<<"D", "a", "t", "a", "b", "a", "s", "e", " ", "L", "o", "c", "k">>, <<"S", "h", "a", "r", "e", "d", " ", "S", "t", "a", "t", "e">>, <<"S", "c", "h", "e", "m", "a", " ", "D", "r", "i", "f", "t">>,
     <<"A", "u", "t", "h", " ", "S", "e", "r", "v", "i", "c", "e">>, <<"I", "d", "e", "n", "t", "i", "t", "y", " ", "S", "p", "r", "a", "w", "l">>, <<"B", "o", "t", "t", "l", "e", "n", "e", "c", "k", " ", "A", "h", "e", "a", "d">>, <<"G", "O", "D", " ", "O", "b", "j", "e", "c", "t">>,
     <<"S", "t", "r", "i", "p", "e", " ", "C", "a", "l", "l", "s">>, <<"3", "r", "d", " ", "P", "a", "r", "t", "y", " ", "S", "D", "K">>, <<"E", "x", "t", "e", "r", "n", "a", "l", " ", "F", "e", "e", "d">>, <<"I", "n", "t", "e", "g", "r", "a", "t", "i", "o", "n", " ", "T", "e", "s", "t", "s">>,
     <<"C", "r", "o", "s", "s", "-", "D", "o", "m", "a", "i", "n", " ", "W", "r", "i", "t",
       "e">>, <<"T", "i", "g", "h", "t", " ", "C", "o", "u", "p", "l", "i", "n", "g">>, <<"D", "o", "m", "a", "i", "n", " ", "L", "e", "a", "k">>,
     <<"C", "r", "o", "s", "s", "-", "D", "o", "m", "a", "i", "n", " ", "D", "a", "t", "a",
       "b", "a", "s", "e", " ", "W", "r", "i", "t", "e", " ", "F", "r", "a", "g", "i", "l",
       "i", "t", "y">>, <<"A", "u", "t", "h", " ", "a", "n", "d", " ", "S", "t", "r", "i", "p", "e">>,
     <<"U", "n", "u", "s", "e", "d", " ", "C", "S", "S">>}

\* one insight, of every title and severity
SingleInsights ==
    {<<Insight(1, title, severity, <<"w", "h", "y">>)>> :
        title \in KeywordTitles, severity \in {Sev_high, Sev_medium, Sev_low}}

\* the insights the longer lists are made of; the last has a severity that is
\* none of the three tags
InsightPool ==
    {Insight(0, <<"S", "h", "a", "r", "e", "d", " ", "D", "a", "t", "a", "b", "a", "s", "e", " ", "F",
                  "r", "a", "g", "i", "l", "i", "t", "y">>, Sev_high, <<"s", "1">>),
     Insight(0, <<"S", "c", "h", "e", "m", "a", " ", "D", "r", "i", "f", "t">>, Sev_medium, <<"s", "2">>),
     Insight(0, <<"I", "d", "e", "n", "t", "i", "t", "y", " ", "G", "O", "D", " ", "O", "b", "j", "e",
                  "c", "t">>, Sev_low, <<"s", "3">>),
     Insight(0, <<"V", "e", "n", "d", "o", "r", " ", "L", "o", "c", "k">>, <<"H", "i", "g", "h">>, <<"s", "4">>)}

\* ids are the positions
Numbered(list) == [n \in 1..Len(list) |-> [list[n] EXCEPT !.id = n]]

PooledInsights ==
    {Numbered(list) : list \in UNION {[1..m -> InsightPool] : m \in 0..MaxInsights}}

InsightLists == {HardcodedInsights} \cup SingleInsights \cup PooledInsights

InsightsProp(list) == [t |-> "insights", list |-> list]

InitArcSight ==
    /\ report = placeholderReport
    /\ isPlaceholder = TRUE
    /\ error = Null
    /\ fileName = Null
    /\ inputValue = << >>
    /\ pending = {}
    /\ nextRead = 1
    /\ last = [op |-> "init"]
    /\ insights = HardcodedInsights
    /\ activeFilter = Filter_All
    /\ fn = "none"
    /\ arg \in {InsightsProp(list) : list \in InsightLists}
    /\ result = Undefined

\* ArcSightExecutiveSummary rendered with the prop insights = arg.list
CallAnalysis ==
    /\ arg.t = "insights"
    /\ Call("analysis", analysis(arg.list))

\* onClick of a filter button
setActiveFilter(filter) ==
    /\ activeFilter' = filter
    /\ last' = [op |-> "filter", filter |-> filter]
    /\ UNCHANGED <<insights, report, isPlaceholder, error, fileName, inputValue,
                   pending, nextRead, fn, arg, result>>

NextArcSight ==
    \/ CallAnalysis
    \/ \E n \in DOMAIN filterButtons : setActiveFilter(filterButtons[n])

SpecArcSight == InitArcSight /\ [][NextArcSight]_vars

-----------------------------------------------------------------------------
(* Claims about the Normalizer, checked under SpecNormalizer                *)

\* what JSON.parse can return: no undefined, NaN or Infinity
RECURSIVE IsJSONValue(_)
IsJSONValue(v) ==
    CASE v.t \in {"null", "boolean", "string"} -> TRUE
      [] v.t = "number" -> v.k = "finite"
      [] v.t = "array" -> \A i \in 1..Len(v.items) : IsJSONValue(v.items[i])
      [] v.t = "object" -> \A k \in DOMAIN v.f : IsJSONValue(v.f[k])
      [] OTHER -> FALSE

IsRisk(r) ==
    /\ DOMAIN r = {"type", "filePath", "explanation"}
    /\ Len(r.type) > 0 /\ Len(r.filePath) > 0 /\ Len(r.explanation) > 0

IsReport(r) ==
    /\ DOMAIN r = {"structuralViabilityScore", "stage", "summary",
                   "recommendedNextStep", "risks"}
    /\ r.structuralViabilityScore \in 0..100
    /\ \A i \in 1..Len(r.risks) : IsRisk(r.risks[i])

\* C1: mapToReport is total: for every parsed JSON value (object, array,
\* string, number, boolean, null) it returns a Report and never throws.
C1_MapToReportTotal ==
    (fn = "mapToReport" /\ IsJSONValue(arg)) => (result # TypeError /\ IsReport(result))

\* C2: clampScore returns an integer in [0,100] for every input and 0 for
\* every input that is not a finite number; so the score of every Report
\* mapToReport returns is an integer in [0,100].
C2_ClampScoreRange ==
    /\ fn = "clampScore" =>
          /\ result \in 0..100
          /\ (arg.t # "number" \/ arg.k # "finite") => result = 0
    /\ (fn = "mapToReport" /\ result # TypeError) =>
          result.structuralViabilityScore \in 0..100

\* C2 witness: clampScore was applied to the string "78" and returned 0, and
\* (in another state) to a number above 100.
C2_Witness ==
    fn = "clampScore" /\ arg = Str(<<"7", "8">>) /\ result = 0

\* a value normalizeString replaces by its fallback
Blank(v) == v.t # "string" \/ Trim(v.s) = << >>

\* C3: every Risk asRiskArray returns (and so every Risk of a Report) has
\* type, filePath and explanation non-empty, and "Not provided" stands for a
\* field that is absent, not a string or only white space.
C3_RisksPopulated ==
    /\ fn = "asRiskArray" =>
          /\ \A i \in 1..Len(result) : IsRisk(result[i])
          /\ (arg.t = "array" /\ Len(arg.items) = 1 /\ arg.items[1].t = "object") =>
                LET item == arg.items[1]
                IN  /\ Len(result) = 1
                    /\ Blank(Get(item, K_type)) => result[1].type = NotProvided
                    /\ (Blank(Get(item, K_file)) /\ Blank(Get(item, K_filePath)))
                          => result[1].filePath = NotProvided
                    /\ (/\ Blank(Get(item, K_why))
                        /\ Blank(Get(item, K_whyItMatters))
                        /\ Blank(Get(item, K_explanation)))
                          => result[1].explanation = NotProvided
    /\ (fn = "mapToReport" /\ result # TypeError) =>
          \A i \in 1..Len(result.risks) : IsRisk(result.risks[i])

\* C3 witness: asRiskArray was applied to one object whose type is only
\* white space and which has no file path, and returned the fallback for both.
C3_Witness ==
    /\ fn = "asRiskArray"
    /\ arg.t = "array" /\ Len(arg.items) = 1 /\ arg.items[1].t = "object"
    /\ Get(arg.items[1], K_type) = Str(<<" ">>)
    /\ Get(arg.items[1], K_file) = Undefined
    /\ Get(arg.items[1], K_filePath) = Undefined
    /\ Get(arg.items[1], K_why) = Str(<<" ", "b", " ">>)
    /\ result = <<[type |-> NotProvided, filePath |-> NotProvided,
                   explanation |-> <<"b">>]>>

-----------------------------------------------------------------------------
(* Claims about the upload handler, checked under Spec                      *)

\* what JSON.parse returned in the read that completed last
LastParsed == JSONParse(last.file.text)

\* C4: when a read completes with text that is not valid JSON, then whatever
\* was displayed before, the page shows the placeholder report, no file name
\* and the "confirm it is valid JSON" message.
C4_InvalidJsonReverts ==
    (last.op = "onload" /\ ~LastParsed.ok) =>
        /\ report = placeholderReport
        /\ isPlaceholder = TRUE
        /\ fileName = Null
        /\ error = Str(ParseErrorMessage)

\* C4 witness: a read of text that is not JSON completed while a loaded
\* report with its own summary was displayed.
C4_Witness ==
    /\ last.op = "onload" /\ ~LastParsed.ok
    /\ last.before.isPlaceholder = FALSE
    /\ last.before.report.summary # placeholderSummary
    /\ report = placeholderReport

\* C5: when the read itself fails (reader.onerror), then whatever was
\* displayed before, the page shows the retry message and the placeholder
\* report.
C5_ReadErrorReverts ==
    last.op = "onerror" =>
        /\ error = Str(ReadErrorMessage)
        /\ report = placeholderReport
        /\ isPlaceholder = TRUE

\* C6: when a read completes with valid JSON that is not an object (a number,
\* a string, a boolean, an array, null), the page shows the "confirm it is
\* valid JSON" message and the placeholder report.
C6_NonObjectIsParseError ==
    (last.op = "onload" /\ LastParsed.ok /\ LastParsed.v.t # "object") =>
        /\ error = Str(ParseErrorMessage)
        /\ report = placeholderReport
        /\ isPlaceholder = TRUE

\* C7: when a read completes with text that parses to a JSON object, the
\* handler sets no error message whatever the object's fields are, and the
\* page shows mapToReport of the object under the file's name.
C7_ObjectNeverAnError ==
    (last.op = "onload" /\ LastParsed.ok /\ LastParsed.v.t = "object") =>
        /\ error = last.before.error
        /\ isPlaceholder = FALSE
        /\ fileName = Str(last.file.name)
        /\ report = mapToReport(LastParsed.v)

\* C7 witness: the file whose score is a string, whose stage is a number and
\* whose risks are a string was loaded, and shown with the defaults.
C7_Witness ==
    /\ last.op = "onload" /\ last.file = FileMalformedFields
    /\ isPlaceholder = FALSE
    /\ report.structuralViabilityScore = 0 /\ report.stage = NotProvided
    /\ report.risks = << >>
    /\ error = Null

\* C8: the report displayed is the placeholder report or mapToReport of the
\* content of one file, the one whose name is displayed; nothing of an
\* earlier report is merged into it.
C8_ReportIsWholesale ==
    \/ report = placeholderReport
    \/ \E f \in Files :
          /\ fileName = Str(f.name)
          /\ JSONParse(f.text).ok
          /\ report = mapToReport(JSONParse(f.text).v)

\* C8 witness: a file with no summary was loaded over a report that had its
\* own summary, and the default summary is displayed.
C8_Witness ==
    /\ last.op = "onload" /\ isPlaceholder = FALSE
    /\ last.before.isPlaceholder = FALSE
    /\ last.before.report.summary # placeholderSummary
    /\ Get(LastParsed.v, K_summary) = Undefined
    /\ report.summary = placeholderSummary

\* C9: no failure is terminal: in every state (after a parse failure, after a
\* read failure, while reads are pending) every file can be selected, as long
\* as the model's count of reads allows one more; and a read of a JSON
\* object that completes displays that file's normalized report, whatever
\* failure was displayed before.
C9_NoFailureIsTerminal ==
    /\ nextRead <= MaxReads => \A f \in Files : ENABLED SelectFile(f)
    /\ (last.op = "onload" /\ LastParsed.ok /\ LastParsed.v.t = "object") =>
          /\ isPlaceholder = FALSE
          /\ report = mapToReport(LastParsed.v)

\* C9 witness: a JSON object's read completed while the placeholder and the
\* parse error of an earlier read were displayed, and its report is shown.
C9_Witness ==
    /\ last.op = "onload" /\ LastParsed.ok /\ LastParsed.v.t = "object"
    /\ last.before.error = Str(ParseErrorMessage)
    /\ last.before.isPlaceholder = TRUE
    /\ isPlaceholder = FALSE
    /\ report = mapToReport(LastParsed.v)

\* the read that completed last was started before a read that had
\* completed already
OlderReadCompletedLast ==
    /\ last.op = "onload"
    /\ \E b \in (last.id + 1)..(nextRead - 1) : \A p \in pending : p.id # b

\* what reader.onload of file f leaves displayed
ProducedBy(f) ==
    LET parsed == JSONParse(f.text)
    IN  IF parsed.ok /\ mapToReport(parsed.v) # TypeError
        THEN [report |-> mapToReport(parsed.v), isPlaceholder |-> FALSE,
              fileName |-> Str(f.name)]
        ELSE [report |-> placeholderReport, isPlaceholder |-> TRUE, fileName |-> Null]

\* C10: the last read to complete wins: when file A is selected, then file B,
\* and A's read completes after B's, the report, isPlaceholder and fileName
\* are those A's read produces.
C10_LastCompletedWins ==
    OlderReadCompletedLast =>
        [report |-> report, isPlaceholder |-> isPlaceholder, fileName |-> fileName]
            = ProducedBy(last.file)

\* C10 witness: B's report was displayed, then the read of A, selected
\* before B, completed, and A's report is displayed under A's name.
C10_Witness ==
    /\ OlderReadCompletedLast
    /\ last.before.isPlaceholder = FALSE
    /\ last.before.fileName # Str(last.file.name)
    /\ isPlaceholder = FALSE
    /\ fileName = Str(last.file.name)
    /\ report # last.before.report

-----------------------------------------------------------------------------
(* Further claims about the Normalizer, checked under SpecNormalizer        *)

\* an element asRiskArray keeps: no number, string, boolean, null or
\* undefined (so an object, and a nested array, whose typeof is 'object' too)
Survives(item) == item.t \notin {"number", "string", "boolean", "null", "undefined"}

\* C11: asRiskArray returns the empty sequence for every input that is not an
\* array; of an array it drops every number, string, boolean and null without
\* a placeholder, and the elements that survive appear in their input order,
\* duplicates kept, so the output is as long as the survivors are many.
C11_RiskArrayFilters ==
    fn = "asRiskArray" =>
        /\ arg.t # "array" => result = << >>
        /\ arg.t = "array" =>
              LET kept == SelectSeq(arg.items, Survives)
              IN  /\ Len(result) = Len(kept)
                  /\ \A i \in 1..Len(kept) :
                         result[i].type
                             = normalizeString(Get(kept[i], K_type), NotProvided)

\* C11 witness: of an object, a number and the same object again, asRiskArray
\* returned the object's Risk twice and nothing for the number.
C11_Witness ==
    /\ fn = "asRiskArray"
    /\ arg = Arr(<<ObjOf(<<K_type>>, <<Str(<<"a">>)>>), Num(1, "zero"),
                   ObjOf(<<K_type>>, <<Str(<<"a">>)>>)>>)
    /\ Len(result) = 2
    /\ result[1] = result[2]
    /\ result[1].type = <<"a">>

\* a property that is there with a value other than null
Present(v, k) == ~Nullish(Get(v, k))

\* C12: alias precedence in mapToReport: with structuralViabilityScore and
\* viabilityScore both present the score comes from structuralViabilityScore,
\* with viabilityScore alone from viabilityScore; likewise
\* recommendedNextStep is preferred over nextStep, and nextStep is used when
\* recommendedNextStep is absent.  (Present: bound to a value other than null.)
C12_TopLevelAliases ==
    (fn = "mapToReport" /\ arg.t = "object") =>
        /\ Present(arg, K_structuralViabilityScore) =>
              result.structuralViabilityScore
                  = clampScore(Get(arg, K_structuralViabilityScore))
        /\ (~Present(arg, K_structuralViabilityScore) /\ Present(arg, K_viabilityScore)) =>
              result.structuralViabilityScore = clampScore(Get(arg, K_viabilityScore))
        /\ Present(arg, K_recommendedNextStep) =>
              result.recommendedNextStep
                  = normalizeString(Get(arg, K_recommendedNextStep), placeholderNextStep)
        /\ (~Present(arg, K_recommendedNextStep) /\ Present(arg, K_nextStep)) =>
              result.recommendedNextStep
                  = normalizeString(Get(arg, K_nextStep), placeholderNextStep)

\* C12 witness: mapToReport of {structuralViabilityScore: 10, viabilityScore: 90}
\* returned the score 10.
C12_Witness ==
    /\ fn = "mapToReport"
    /\ arg = ExampleBothScores
    /\ result.structuralViabilityScore = 10

\* asRiskArray was applied to an array of one object
OneObject ==
    fn = "asRiskArray" /\ arg.t = "array" /\ Len(arg.items) = 1
        /\ arg.items[1].t = "object"

\* C13: alias precedence in asRiskArray: filePath comes from file when file
\* and filePath both exist and from filePath when file is absent; explanation
\* comes from why, else whyItMatters, else explanation.  (Exists: bound to a
\* value other than null.)
C13_RiskAliases ==
    OneObject =>
        LET item == arg.items[1]
            from(k) == normalizeString(Get(item, k), NotProvided)
        IN  /\ Len(result) = 1
            /\ Present(item, K_file) => result[1].filePath = from(K_file)
            /\ ~Present(item, K_file) => result[1].filePath = from(K_filePath)
            /\ Present(item, K_why) => result[1].explanation = from(K_why)
            /\ (~Present(item, K_why) /\ Present(item, K_whyItMatters)) =>
                  result[1].explanation = from(K_whyItMatters)
            /\ (~Present(item, K_why) /\ ~Present(item, K_whyItMatters)) =>
                  result[1].explanation = from(K_explanation)

\* C13 witness: asRiskArray of [{file: "a.ts", filePath: "b.ts"}] returned the
\* file path "a.ts".
C13_Witness ==
    /\ fn = "asRiskArray"
    /\ arg = Arr(<<ExampleRiskBothPaths>>)
    /\ result[1].filePath = <<"a", ".", "t", "s">>

\* C14: every top-level field is optional: an absent or invalid summary or
\* recommendedNextStep (with its alias) yields the placeholder report's text
\* for that field, an absent or invalid stage "Not provided", an absent score
\* 0 and absent risks the empty sequence.
C14_TopLevelDefaults ==
    (fn = "mapToReport" /\ arg.t = "object") =>
        /\ Blank(Get(arg, K_summary)) => result.summary = placeholderSummary
        /\ (Blank(Get(arg, K_recommendedNextStep)) /\ Blank(Get(arg, K_nextStep))) =>
              result.recommendedNextStep = placeholderNextStep
        /\ placeholderSummary # NotProvided /\ placeholderNextStep # NotProvided
        /\ Blank(Get(arg, K_stage)) => result.stage = NotProvided
        /\ (~Present(arg, K_structuralViabilityScore) /\ ~Present(arg, K_viabilityScore)) =>
              result.structuralViabilityScore = 0
        /\ Get(arg, K_risks) = Undefined => result.risks = << >>

\* C14 witness: mapToReport of {"structuralViabilityScore": 130, "stage":
\* "Graduation", "risks": []} returned score 100, stage "Graduation", the
\* default summary and next step, and no risks.
C14_Witness ==
    /\ fn = "mapToReport"
    /\ arg = ExampleGraduation
    /\ result = [structuralViabilityScore |-> 100,
                 stage |-> <<"G", "r", "a", "d", "u", "a", "t", "i", "o", "n">>,
                 summary |-> placeholderSummary,
                 recommendedNextStep |-> placeholderNextStep,
                 risks |-> << >>]

\* a string with a character that is not white space
HasContent(v) == v.t = "string" /\ \E k \in 1..Len(v.s) : v.s[k] \notin WhiteSpace

\* r is s without its leading and trailing white space, and nothing else
\* removed
StrippedOf(r, s) ==
    \E i, j \in 1..Len(s) :
        /\ i <= j
        /\ r = SubSeq(s, i, j)
        /\ s[i] \notin WhiteSpace /\ s[j] \notin WhiteSpace
        /\ \A k \in 1..Len(s) : (k < i \/ k > j) => s[k] \in WhiteSpace

\* C15: normalizeString(value, fallback) returns a string value that has
\* content with only its leading and trailing white space removed, and the
\* fallback ("Not provided" when none is given) for every other value.
C15_NormalizeString ==
    fn = "normalizeString" =>
        IF HasContent(arg)
        THEN StrippedOf(result.returned, arg.s)
        ELSE result.returned
                 = (IF result.fallback = Undefined THEN NotProvided
                    ELSE result.fallback.s)

\* C15 witness: normalizeString("  a b ") returned "a b".
C15_Witness ==
    /\ fn = "normalizeString"
    /\ arg = Str(<<" ", " ", "a", " ", "b", " ">>)
    /\ result.fallback = Undefined
    /\ result.returned = <<"a", " ", "b">>

\* the integer nearest to the finite number x, the upper one of two equally
\* near: its distance to x is at most 1/2, and below 1/2 from above
Nearest(x) ==
    CHOOSE n \in {x.floor, x.floor + 1} :
        \/ n = x.floor /\ x.frac \in {"zero", "below"}
        \/ n = x.floor + 1 /\ x.frac \in {"half", "above"}

\* C16: for a finite number clampScore rounds to the nearest integer, halves
\* up, and then clamps to [0,100]: 42.5 gives 43, -5 gives 0, 150 gives 100,
\* 100.4 and 100.5 give 100, -0.5 gives 0.
C16_RoundThenClamp ==
    (fn = "clampScore" /\ arg.t = "number" /\ arg.k = "finite") =>
        /\ Nearest(arg) < 0 => result = 0
        /\ Nearest(arg) > 100 => result = 100
        /\ Nearest(arg) \in 0..100 => result = Nearest(arg)
        /\ arg = Num(42, "half") => result = 43
        /\ arg = Num(-5, "zero") => result = 0
        /\ arg = Num(150, "zero") => result = 100
        /\ arg = Num(100, "below") => result = 100
        /\ arg = Num(100, "half") => result = 100
        /\ arg = Num(-1, "half") => result = 0

\* C16 witness: clampScore(42.5) returned 43.
C16_Witness ==
    fn = "clampScore" /\ arg = Num(42, "half") /\ result = 43

\* C17: normalization is idempotent: for every input x that mapToReport
\* accepts, mapToReport of the Report mapToReport(x) is that Report again, the
\* risks element by element.
C17_Idempotent ==
    (fn = "mapToReportTwice" /\ result.once # TypeError) =>
        /\ result.twice = result.once
        /\ Len(result.twice.risks) = Len(result.once.risks)
        /\ \A i \in 1..Len(result.once.risks) :
               result.twice.risks[i] = result.once.risks[i]

\* C17 witness: the Report of {"risks": [{"type": "APICallInUI", "filePath":
\* "x.ts", "why": "reason"}]}, whose risk has the explanation "reason", was
\* normalized again and came back equal.
C17_Witness ==
    /\ fn = "mapToReportTwice"
    /\ arg = ObjOf(<<K_risks>>, <<Arr(<<ExampleRiskApiCall>>)>>)
    /\ Len(result.once.risks) = 1
    /\ result.once.risks[1].explanation = <<"r", "e", "a", "s", "o", "n">>
    /\ result.twice = result.once

\* C18: translateRisk trims its input and then matches it exactly against the
\* five known tags, each with its own fixed triple; "APICallInUI" has the
\* High Risk severity and the label "Business logic mixed into UI", and a
\* padded tag has the triple of the tag.
C18_KnownTags ==
    /\ \A t1, t2 \in KnownTags :
           t1 # t2 => KnownTranslation(t1) # KnownTranslation(t2)
    /\ fn = "translateRisk" =>
          /\ \A tag \in KnownTags :
                 StrippedOf(tag, arg.s) => result = KnownTranslation(tag)
          /\ StrippedOf(Tag_APICallInUI, arg.s) =>
                 /\ result.label = <<"B", "u", "s", "i", "n", "e", "s", "s", " ", "l", "o", "g", "i", "c", " ", "m", "i",
                                     "x", "e", "d", " ", "i", "n", "t", "o", " ", "U", "I">>
                 /\ result.severity = <<"U+1F534", " ", "H", "i", "g", "h", " ", "R", "i", "s", "k">>

\* C18 witness: translateRisk(" APICallInUI ") returned the High Risk triple.
C18_Witness ==
    /\ fn = "translateRisk"
    /\ arg = Str(<<" ", "A", "P", "I", "C", "a", "l", "l", "I", "n", "U", "I", " ">>)
    /\ result.label = <<"B", "u", "s", "i", "n", "e", "s", "s", " ", "l", "o", "g", "i", "c", " ", "m", "i",
                        "x", "e", "d", " ", "i", "n", "t", "o", " ", "U", "I">>
    /\ result.severity = <<"U+1F534", " ", "H", "i", "g", "h", " ", "R", "i", "s", "k">>

\* C19: translateRisk is total on strings: an input that is no known tag after
\* trimming (the empty string, a tag in another case, "Not provided") gets the
\* default: the input as it came as label, the Unknown severity and the fixed
\* disclaimer.
C19_UnknownTags ==
    fn = "translateRisk" =>
        /\ DOMAIN result = {"label", "severity", "message"}
        /\ (\A tag \in KnownTags : ~StrippedOf(tag, arg.s)) =>
              /\ result.label = arg.s
              /\ result.severity = <<"U+26AA", " ", "U", "n", "k", "n", "o", "w", "n", " ", "R", "i", "s", "k">>
              /\ result.message
                     = <<"R", "i", "s", "k", " ", "t", "y", "p", "e", " ", "n", "o", "t", " ", "r", "e", "c",
                         "o", "g", "n", "i", "z", "e", "d", " ", "U+2014", " ", "m", "a", "y", " ", "i", "n",
                         "d", "i", "c", "a", "t", "e", " ", "s", "t", "r", "u", "c", "t", "u", "r", "a", "l",
                         " ", "i", "s", "s", "u", "e", "s", ".">>
        /\ arg.s \in {<< >>, <<"a", "p", "i", "c", "a", "l", "l", "i", "n", "u", "i">>, NotProvided, <<"T", "o", "t", "a", "l", "l", "y", "N", "e", "w", "T", "a", "g">>} =>
              /\ result.label = arg.s
              /\ result.severity = <<"U+26AA", " ", "U", "n", "k", "n", "o", "w", "n", " ", "R", "i", "s", "k">>

\* C19 witness: translateRisk("TotallyNewTag") returned the label
\* "TotallyNewTag" and the Unknown severity.
C19_Witness ==
    /\ fn = "translateRisk"
    /\ arg = Str(<<"T", "o", "t", "a", "l", "l", "y", "N", "e", "w", "T", "a", "g">>)
    /\ result.label = <<"T", "o", "t", "a", "l", "l", "y", "N", "e", "w", "T", "a", "g">>
    /\ result.severity = <<"U+26AA", " ", "U", "n", "k", "n", "o", "w", "n", " ", "R", "i", "s", "k">>

\* a step of the page in which no file takes part: a click on one of the
\* buttons, or a file chooser closed with nothing chosen
NoFileStep ==
    \/ \E b \in Buttons : handleUploadClick(b)
    \/ SelectNothing

\* C20: besides "new file selected" (every file can be selected, which starts
\* its read) the page takes a "placeholder requested" event: in every state
\* some step with no file involved leaves the built-in placeholder displayed
\* (report = placeholderReport, isPlaceholder = TRUE).
C20_PlaceholderRequested ==
    /\ nextRead <= MaxReads =>
          \A f \in Files :
             ENABLED (SelectFile(f) /\ \E r \in pending' : r.file = f)
    /\ ENABLED (/\ NoFileStep
                /\ report' = placeholderReport
                /\ isPlaceholder' = TRUE)

\* the number of insights of the list with exactly this severity
Exactly(list, tag) == Cardinality({n \in 1..Len(list) : list[n].severity = tag})

\* C21: counts.high, counts.medium and counts.low are the numbers of insights
\* with exactly that severity; they add up to the total when every severity
\* is one of the three; the analysis has a value for every list, and for the
\* empty list it is 0/0/0, total 0, no flag, no top fragility and a narrative
\* without the high-severity clause.
C21_CountsExact ==
    fn = "analysis" =>
        /\ DOMAIN result = {"counts", "total", "hasHighRisk", "hasDatabaseRisk",
                            "hasBottleneck", "hasExternalDependency", "hasCrossDomain",
                            "topFragilities", "narrative"}
        /\ result.counts.high = Exactly(arg.list, Sev_high)
        /\ result.counts.medium = Exactly(arg.list, Sev_medium)
        /\ result.counts.low = Exactly(arg.list, Sev_low)
        /\ result.total = Len(arg.list)
        /\ (\A n \in 1..Len(arg.list) :
               arg.list[n].severity \in {Sev_high, Sev_medium, Sev_low}) =>
              result.counts.high + result.counts.medium + result.counts.low = result.total
        /\ arg.list = << >> =>
              /\ result.counts = [high |-> 0, medium |-> 0, low |-> 0]
              /\ result.total = 0
              /\ ~result.hasHighRisk
              /\ ~result.hasDatabaseRisk
              /\ ~result.hasBottleneck
              /\ ~result.hasExternalDependency
              /\ ~result.hasCrossDomain
              /\ result.topFragilities = << >>
              /\ result.narrative =
                    <<"A", "r", "c", "S", "i", "g", "h", "t", " ", "d", "e", "t", "e", "c", "t", "e", "d",
                      " ", " ", "r", "i", "s", "k", " ", "t", "h", "a", "t", " ", "c", "o", "u", "l", "d",
                      " ", "i", "m", "p", "a", "c", "t", " ", "a", "r", "c", "h", "i", "t", "e", "c", "t",
                      "u", "r", "a", "l", " ", "s", "t", "a", "b", "i", "l", "i", "t", "y", ",", " ", "m",
                      "i", "g", "r", "a", "t", "i", "o", "n", " ", "f", "e", "a", "s", "i", "b", "i", "l",
                      "i", "t", "y", ",", " ", "a", "n", "d", " ", "l", "o", "n", "g", "-", "t", "e", "r",
                      "m", " ", "r", "o", "a", "d", "m", "a", "p", " ", "a", "g", "i", "l", "i", "t", "y",
                      ".">>

\* C21 witness: the analysis of a list with insights of all three severities
\* and one of another severity, whose counts add up to less than the total.
C21_Witness ==
    /\ fn = "analysis"
    /\ result.counts.high = 1 /\ result.counts.medium = 1 /\ result.counts.low = 1
    /\ result.total = 4

\* the title has a stretch of characters that is the keyword up to case
ContainsIgnoringCase(title, keyword) ==
    \E a \in 1..(Len(title) - Len(keyword) + 1) :
        toLowerCase(SubSeq(title, a, a + Len(keyword) - 1)) = keyword

\* some insight of the list, whatever its severity, has a title with one of
\* the keywords
Flagged(list, keywords) ==
    \E n \in 1..Len(list) : \E k \in keywords : ContainsIgnoringCase(list[n].title, k)

\* C22: each of the four pattern flags is true exactly when some insight, of
\* any severity, has a title containing one of the flag's keywords in any
\* case (database risk: "database", "shared" or "schema").
C22_PatternFlags ==
    fn = "analysis" =>
        /\ result.hasDatabaseRisk
              = Flagged(arg.list, {<<"d", "a", "t", "a", "b", "a", "s", "e">>, <<"s", "h", "a", "r", "e", "d">>, <<"s", "c", "h", "e", "m", "a">>})
        /\ result.hasBottleneck = Flagged(arg.list, BottleneckKeywords)
        /\ result.hasExternalDependency = Flagged(arg.list, ExternalKeywords)
        /\ result.hasCrossDomain = Flagged(arg.list, CrossDomainKeywords)

\* C22 witness: the analysis of one low-severity insight titled "GOD Object"
\* has the bottleneck flag and no other.
C22_Witness ==
    /\ fn = "analysis"
    /\ Len(arg.list) = 1
    /\ arg.list[1].title = <<"G", "O", "D", " ", "O", "b", "j", "e", "c", "t">>
    /\ arg.list[1].severity = Sev_low
    /\ result.hasBottleneck
    /\ ~result.hasDatabaseRisk /\ ~result.hasExternalDependency /\ ~result.hasCrossDomain

\* the insights of severity high or medium, in the order of the list
HighOrMedium(list) ==
    SelectSeq(list, LAMBDA i : i.severity \in {Sev_high, Sev_medium})

\* C23: the top-fragility list is made of the first min(3, n) of the n insights
\* of severity high or medium, in their order; no low-severity insight is in
\* it and it is never longer than 3.
C23_TopFragilities ==
    fn = "analysis" =>
        LET eligible == HighOrMedium(arg.list)
            top == result.topFragilities
        IN  /\ Len(top) = Min(3, Len(eligible))
            /\ Len(top) <= 3
            /\ \A n \in 1..Len(top) : top[n].summary = eligible[n].summary
            /\ \A n \in 1..Len(arg.list) :
                   arg.list[n].severity = Sev_low =>
                       \A m \in 1..Len(top) : top[m].summary # arg.list[n].summary

\* C23 witness: a list that starts with a low-severity insight and has four
\* of severity high or medium after it; its top fragilities are the first
\* three of these.
C23_Witness ==
    /\ fn = "analysis"
    /\ Len(arg.list) = 5
    /\ arg.list[1].severity = Sev_low
    /\ Len(HighOrMedium(arg.list)) = 4
    /\ Len(result.topFragilities) = 3
    /\ result.topFragilities[1].summary = arg.list[2].summary

\* the category of a title by the keywords of the pattern flags, in the order
\* database, bottleneck, external integration, cross-domain; the title itself
\* when it has none of the keywords
SignalByFlagKeywords(i) ==
    IF TitleHas(i, DatabaseKeywords) THEN Signal_Database
    ELSE IF TitleHas(i, BottleneckKeywords) THEN Signal_Bottleneck
    ELSE IF TitleHas(i, ExternalKeywords) THEN Signal_External
    ELSE IF TitleHas(i, CrossDomainKeywords) THEN Signal_CrossDomain
    ELSE i.title

\* C24: each top-fragility entry has the category that the keywords of the
\* pattern flags give its title, the first of database, bottleneck, external
\* integration and cross-domain that matches; the signal is the title itself
\* only when the title has no keyword of any of the four flags.
C24_SignalByFlagKeywords ==
    fn = "analysis" =>
        \A n \in 1..Len(result.topFragilities) :
            result.topFragilities[n].signal
                = SignalByFlagKeywords(HighOrMedium(arg.list)[n])

\* the clause of a severity in the narrative: its count and its name
HighText(n) == NumberToString(n) \o <<" ", "H", "i", "g", "h", "-", "S", "e", "v", "e", "r", "i", "t", "y">>

MediumText(n) == NumberToString(n) \o <<" ", "M", "o", "d", "e", "r", "a", "t", "e">>

LowText(n) == NumberToString(n) \o <<" ", "L", "o", "w", "-", "S", "e", "v", "e", "r", "i", "t", "y">>

\* the clauses expected for the counts: one for each count that is not zero,
\* in the order high, medium, low, with " and " between two clauses
ExpectedClauses(h, m, l) ==
    (IF h > 0 THEN HighText(h) ELSE << >>)
    \o (IF h > 0 /\ (m > 0 \/ l > 0) THEN <<" ", "a", "n", "d", " ">> ELSE << >>)
    \o (IF m > 0 THEN MediumText(m) ELSE << >>)
    \o (IF m > 0 /\ l > 0 THEN <<" ", "a", "n", "d", " ">> ELSE << >>)
    \o (IF l > 0 THEN LowText(l) ELSE << >>)

\* C25: the narrative has one clause for each severity whose count is not
\* zero and none for a zero count, in the order high, medium, low, joined
\* with "and"; the noun is "risks" when the list has more than one insight and
\* "risk" otherwise; the fixed clause "These structural fragilities can lead
\* to:" ends the narrative exactly when there is a high-severity insight.
C25_Narrative ==
    fn = "analysis" =>
        LET h == Exactly(arg.list, Sev_high)
            m == Exactly(arg.list, Sev_medium)
            l == Exactly(arg.list, Sev_low)
            sentence ==
                <<"A", "r", "c", "S", "i", "g", "h", "t", " ", "d", "e", "t", "e", "c", "t", "e", "d",
                  " ">>
                \o ExpectedClauses(h, m, l)
                \o (IF Len(arg.list) > 1 THEN <<" ", "r", "i", "s", "k", "s">> ELSE <<" ", "r", "i", "s", "k">>)
                \o <<" ", "t", "h", "a", "t", " ", "c", "o", "u", "l", "d", " ", "i", "m", "p", "a", "c",
                     "t", " ", "a", "r", "c", "h", "i", "t", "e", "c", "t", "u", "r", "a", "l", " ", "s",
                     "t", "a", "b", "i", "l", "i", "t", "y", ",", " ", "m", "i", "g", "r", "a", "t", "i",
                     "o", "n", " ", "f", "e", "a", "s", "i", "b", "i", "l", "i", "t", "y", ",", " ", "a",
                     "n", "d", " ", "l", "o", "n", "g", "-", "t", "e", "r", "m", " ", "r", "o", "a", "d",
                     "m", "a", "p", " ", "a", "g", "i", "l", "i", "t", "y", ".">>
        IN  /\ h > 0 =>
                result.narrative = sentence \o <<" ", "T", "h", "e", "s", "e", " ", "s", "t", "r", "u", "c", "t", "u", "r", "a", "l",
                                        " ", "f", "r", "a", "g", "i", "l", "i", "t", "i", "e", "s", " ", "c", "a", "n", " ",
                                        "l", "e", "a", "d", " ", "t", "o", ":">>
            /\ h = 0 => result.narrative = sentence
            /\ includes(result.narrative, <<"H", "i", "g", "h", "-", "S", "e", "v", "e", "r", "i", "t", "y">>) <=> h > 0
            /\ includes(result.narrative, <<"M", "o", "d", "e", "r", "a", "t", "e">>) <=> m > 0
            /\ includes(result.narrative, <<"L", "o", "w", "-", "S", "e", "v", "e", "r", "i", "t", "y">>) <=> l > 0

\* C25 witness: the narrative of two high, one medium and one low insight
\* and one insight of another severity.
C25_Witness ==
    /\ fn = "analysis"
    /\ Len(arg.list) = 5
    /\ result.narrative =
          <<"A", "r", "c", "S", "i", "g", "h", "t", " ", "d", "e", "t", "e", "c", "t", "e", "d",
            " ", "2", " ", "H", "i", "g", "h", "-", "S", "e", "v", "e", "r", "i", "t", "y", " ",
            "a", "n", "d", " ", "1", " ", "M", "o", "d", "e", "r", "a", "t", "e", " ", "a", "n",
            "d", " ", "1", " ", "L", "o", "w", "-", "S", "e", "v", "e", "r", "i", "t", "y", " ",
            "r", "i", "s", "k", "s", " ", "t", "h", "a", "t", " ", "c", "o", "u", "l", "d", " ",
            "i", "m", "p", "a", "c", "t", " ", "a", "r", "c", "h", "i", "t", "e", "c", "t", "u",
            "r", "a", "l", " ", "s", "t", "a", "b", "i", "l", "i", "t", "y", ",", " ", "m", "i",
            "g", "r", "a", "t", "i", "o", "n", " ", "f", "e", "a", "s", "i", "b", "i", "l", "i",
            "t", "y", ",", " ", "a", "n", "d", " ", "l", "o", "n", "g", "-", "t", "e", "r", "m",
            " ", "r", "o", "a", "d", "m", "a", "p", " ", "a", "g", "i", "l", "i", "t", "y", ".",
            " ", "T", "h", "e", "s", "e", " ", "s", "t", "r", "u", "c", "t", "u", "r", "a", "l",
            " ", "f", "r", "a", "g", "i", "l", "i", "t", "i", "e", "s", " ", "c", "a", "n", " ",
            "l", "e", "a", "d", " ", "t", "o", ":">>

\* the severity a filter button stands for
SeverityOfFilter(filter) ==
    CASE filter = Filter_High -> Sev_high
      [] filter = Filter_Medium -> Sev_medium
      [] filter = Filter_Low -> Sev_low

\* the insights on the page: the sections in the order they are rendered
DisplayedInsights ==
    groupedInsights.high \o groupedInsights.medium \o groupedInsights.low

\* the hardcoded insights that match the active filter, in their order
Matching ==
    IF activeFilter = Filter_All THEN HardcodedInsights
    ELSE SelectSeq(HardcodedInsights,
                   LAMBDA insight : insight.severity = SeverityOfFilter(activeFilter))

\* C26: the filter starts at All; after any clicks on the filter buttons, All
\* displays every hardcoded insight and High, Medium or Low exactly the
\* insights of that severity, each in the one group of its severity and in
\* the original order; the empty-state message is shown exactly when no
\* insight matches; the hardcoded list is never changed.
C26_DashboardFiltering ==
    /\ last.op = "init" => activeFilter = Filter_All
    /\ activeFilter \in {filterButtons[n] : n \in DOMAIN filterButtons}
    /\ insights = HardcodedInsights
    /\ filteredInsights = Matching
    /\ \A g \in {Sev_high, Sev_medium, Sev_low} :
           LET group == IF g = Sev_high THEN groupedInsights.high
                        ELSE IF g = Sev_medium THEN groupedInsights.medium
                        ELSE groupedInsights.low
           IN  group = SelectSeq(Matching, LAMBDA insight : insight.severity = g)
    /\ Len(DisplayedInsights) = Len(Matching)
    /\ \A n \in 1..Len(Matching) :
           Cardinality({m \in 1..Len(DisplayedInsights) :
                            DisplayedInsights[m] = Matching[n]}) = 1
    /\ EmptyStateShown <=> Matching = << >>

\* C26 witness: after a click on Medium the page shows the one medium
\* insight, in the medium group, and no empty-state message.
C26_Witness ==
    /\ last.op = "filter"
    /\ activeFilter = Filter_Medium
    /\ groupedInsights.high = << >>
    /\ groupedInsights.medium = <<HardcodedInsights[3]>>
    /\ groupedInsights.low = << >>
    /\ ~EmptyStateShown

-----------------------------------------------------------------------------
(* Further claims about the upload handler, checked under Spec              *)

\* the read that completed last ran the try block of reader.onload to its end
LastLoadSucceeded ==
    /\ last.op = "onload"
    /\ LastParsed.ok
    /\ mapToReport(LastParsed.v) # TypeError

\* C27: whenever a read completes successfully, the page shows no error
\* message afterwards, whatever other reads completed before it.
C27_SuccessShowsNoError ==
    LastLoadSucceeded => error = Null

\* C28: in every state reached by selections, cancelled selections, reads that
\* load, reads that fail to parse and reads that fail, the page has a file
\* name exactly when it does not show the placeholder, and when it shows the
\* placeholder the report is the placeholder report.
C28_NameAndPlaceholder ==
    /\ fileName # Null <=> isPlaceholder = FALSE
    /\ isPlaceholder = TRUE => report = placeholderReport

\* C28 witness: a read failed while a loaded report was displayed; the report
\* and its file name are both still there.
C28_Witness ==
    /\ last.op = "onerror"
    /\ last.before.isPlaceholder = FALSE
    /\ isPlaceholder = FALSE
    /\ fileName # Null
    /\ report # placeholderReport

-----------------------------------------------------------------------------
(* Further claims about the Normalizer, checked under SpecNormalizer        *)

\* C29: the alternate of a field is read only when the preferred field is
\* absent or null.  A preferred field bound to an invalid value (file "" or
\* 42, why "   ", structuralViabilityScore "78", recommendedNextStep "") hides
\* the alternate even when that is valid: the result is the fallback text,
\* or 0 for the score.
C29_InvalidPreferredHidesAlternate ==
    /\ (fn = "mapToReport" /\ arg.t = "object") =>
          /\ (Present(arg, K_structuralViabilityScore)
                 /\ Get(arg, K_structuralViabilityScore).t # "number") =>
                result.structuralViabilityScore = 0
          /\ (Present(arg, K_recommendedNextStep)
                 /\ ~HasContent(Get(arg, K_recommendedNextStep))) =>
                result.recommendedNextStep = placeholderNextStep
    /\ OneObject =>
          LET item == arg.items[1]
          IN  /\ (Present(item, K_file) /\ ~HasContent(Get(item, K_file))) =>
                    result[1].filePath = NotProvided
              /\ (Present(item, K_why) /\ ~HasContent(Get(item, K_why))) =>
                    result[1].explanation = NotProvided
              /\ (~Present(item, K_why) /\ Present(item, K_whyItMatters)
                     /\ ~HasContent(Get(item, K_whyItMatters))) =>
                    result[1].explanation = NotProvided

\* C29 witness: asRiskArray of [{file: "", filePath: "b.ts", why: "   ",
\* explanation: "e"}] returned "Not provided" for the path and the explanation.
C29_Witness ==
    /\ fn = "asRiskArray"
    /\ arg = Arr(<<ExampleRiskBlankPreferred>>)
    /\ result[1].filePath = NotProvided
    /\ result[1].explanation = NotProvided

\* the stage has the characters "Graduation" in a row
HasGraduation(stage) ==
    \E a \in 1..(Len(stage) - 9) : SubSeq(stage, a, a + 9) = <<"G", "r", "a", "d", "u", "a", "t", "i", "o", "n">>

\* C30: of the three reference stage pills of a loaded report exactly one is
\* highlighted: the second (Graduation Moment) exactly when the report's
\* stage contains "Graduation", the first (Prototype) otherwise; the third
\* (Product-Ready) never, not even for the stage "Product-Ready".
C30_StagePills ==
    fn = "stagePills" =>
        /\ Cardinality(result.active) = 1
        /\ 1 \in result.active <=> HasGraduation(result.stage)
        /\ 0 \in result.active <=> ~HasGraduation(result.stage)
        /\ 2 \notin result.active
        /\ result.stage = <<"P", "r", "o", "d", "u", "c", "t", "-", "R", "e", "a", "d", "y">> => result.active = {0}

\* C30 witness: for the report loaded from {"stage": "Product-Ready"} the
\* first pill is the highlighted one.
C30_Witness ==
    /\ fn = "stagePills"
    /\ arg = Str(<<"P", "r", "o", "d", "u", "c", "t", "-", "R", "e", "a", "d", "y">>)
    /\ result.stage = <<"P", "r", "o", "d", "u", "c", "t", "-", "R", "e", "a", "d", "y">>
    /\ result.active = {0}

====
